---- MODULE Spec2Model ----
(***************************************************************************)
(* Client-side utilities of the DB General Construction website:           *)
(* StorageUtil (js/utils/storage.js), AuthUtil (js/utils/auth.js) and the  *)
(* parts of js/utils/api.js they use (CONFIG, API.auth.login).             *)
(*                                                                         *)
(* Time is counted in minutes (60000 ms): every time constant of the code  *)
(* is a whole number of minutes.                                           *)
(***************************************************************************)
EXTENDS Integers, Sequences, FiniteSets, TLC

VARIABLES
  localStorage,          \* window.localStorage: key -> stored text
  quota,                 \* what the browser lets this origin store
  now,                   \* Date.now()
  sessionCheckInterval,  \* window.sessionCheckInterval (0: undefined / null)
  timers,                \* ids of the intervals the page has scheduled
  sinceTick,             \* time since the interval was set or last fired
  listening,             \* activity listeners are registered on document
  location,              \* window.location the page was sent to
  request,               \* the call of APIService.request in progress
  handler,               \* the handler of the page that is under way
  heap,                  \* the objects the page's scripts keep in memory
  hist,                  \* history of the session, for the properties
  last                   \* the last operation, its arguments and result

vars == <<localStorage, quota, now, sessionCheckInterval, timers, sinceTick,
          listening, location, request, handler, heap, hist, last>>

\* no call of APIService.request was made
NoRequest == [phase |-> "none"]

\* no handler is under way: the page waits for its next event
NoHandler == [pc |-> "idle"]

\* none of the page's scripts that keep objects in memory is loaded
NoHeap == [loaded |-> "none"]

\* const x = v; then the rest, in which x stands for the value
Let(v, In(_)) == In(v)

----------------------------------------------------------------------------
(* JavaScript values. Every value is a record of one field, named after   *)
(* its type and holding its content.                                      *)

Undefined == [undefined |-> TRUE]
Null == [null |-> TRUE]
Bool(b) == [boolean |-> b]
Num(n) == [number |-> n]
Str(s) == [string |-> s]
Arr(elems) == [array |-> elems]
\* an object: its own properties in insertion order, <<name, value>>
Obj(props) == [object |-> props]
\* an object that refers to itself: JSON.stringify throws a TypeError on it
Cyclic == [cyclic |-> TRUE]
\* a string "p1.p2. ... .pn" given by its dot-separated parts
Dotted(parts) == [dotted |-> parts]
\* new Date(n).toISOString()
IsoDate(n) == [isodate |-> n]
\* a string given by its characters, for the code that measures or matches it
Text(chars) == [text |-> chars]
\* NaN
NaN == [nan |-> TRUE]

\* the type of a value: the name of its one field
T(x) == CHOOSE f \in DOMAIN x : TRUE

IsString(x) == T(x) \in {"string", "dotted", "isodate", "text"}

\* ToBoolean
Truthy(x) ==
  CASE T(x) \in {"undefined", "null"} -> FALSE
    [] T(x) = "boolean" -> x.boolean
    [] T(x) = "number" -> x.number # 0
    [] T(x) = "string" -> x.string # ""
    [] T(x) = "text" -> x.text # <<>>
    [] T(x) = "nan" -> FALSE
    [] OTHER -> TRUE

RECURSIVE Lookup(_, _, _)
\* the value of the last property called name among props[1..i]
Lookup(props, name, i) ==
  IF i = 0 THEN Undefined
  ELSE IF props[i][1] = name THEN props[i][2]
  ELSE Lookup(props, name, i - 1)

\* x.name (x is not null or undefined)
Field(x, name) ==
  IF T(x) = "object" THEN Lookup(x.object, name, Len(x.object)) ELSE Undefined

HasField(x, name) ==
  T(x) = "object" /\ \E i \in 1..Len(x.object) : x.object[i][1] = name

\* {...x, name: val}
SetField(x, name, val) ==
  IF HasField(x, name)
  THEN Obj([i \in 1..Len(x.object) |->
              IF x.object[i][1] = name THEN <<name, val>> ELSE x.object[i]])
  ELSE Obj(Append(x.object, <<name, val>>))

\* const { name: _, ...rest } = x
WithoutField(x, name) ==
  Obj(SelectSeq(x.object, LAMBDA p : p[1] # name))

\* x < n for a number n: x is converted by ToNumber, NaN compares false.
\* The strings of the model are not numerals: they convert to NaN.
LessThan(x, n) ==
  CASE T(x) = "number" -> x.number < n
    [] T(x) = "null" -> 0 < n
    [] T(x) = "boolean" -> (IF x.boolean THEN 1 ELSE 0) < n
    [] OTHER -> FALSE

----------------------------------------------------------------------------
(* JSON text, as the sequence of its lexemes.                              *)

Punct(c) == [punct |-> c]
Word(w) == [word |-> w]
NumLex(n) == [numlex |-> n]
StrLex(x) == [strlex |-> x]

IsPunct(l, c) == T(l) = "punct" /\ l.punct = c

RECURSIVE StringifyValue(_), StringifyElems(_), StringifyProps(_)

\* JSON.stringify of a value that can be serialized; undefined stands for
\* "no text" (the caller decides what becomes of it)
StringifyValue(x) ==
  CASE T(x) = "null" -> <<Word("null")>>
    [] T(x) = "boolean" -> <<Word(IF x.boolean THEN "true" ELSE "false")>>
    [] T(x) = "number" -> <<NumLex(x.number)>>
    [] IsString(x) -> <<StrLex(x)>>
    [] T(x) = "array" -> <<Punct("[")>> \o StringifyElems(x.array) \o <<Punct("]")>>
    [] T(x) = "object" -> <<Punct("{")>> \o StringifyProps(x.object) \o <<Punct("}")>>
    [] OTHER -> <<Word("undefined")>>

\* array elements: undefined is written as null
StringifyElems(elems) ==
  IF Len(elems) = 0 THEN <<>>
  ELSE (IF T(Head(elems)) = "undefined" THEN <<Word("null")>>
        ELSE StringifyValue(Head(elems)))
       \o (IF Len(elems) > 1
           THEN <<Punct(",")>> \o StringifyElems(Tail(elems)) ELSE <<>>)

\* object properties: those whose value is undefined are left out
StringifyProps(props) ==
  LET kept == SelectSeq(props, LAMBDA p : T(p[2]) # "undefined") IN
  IF Len(kept) = 0 THEN <<>>
  ELSE <<StrLex(Str(Head(kept)[1])), Punct(":")>> \o StringifyValue(Head(kept)[2])
       \o (IF Len(kept) > 1
           THEN <<Punct(",")>> \o StringifyProps(Tail(kept)) ELSE <<>>)

RECURSIVE HasCycle(_)
HasCycle(x) ==
  CASE T(x) = "cyclic" -> TRUE
    [] T(x) = "array" -> \E i \in 1..Len(x.array) : HasCycle(x.array[i])
    [] T(x) = "object" -> \E i \in 1..Len(x.object) : HasCycle(x.object[i][2])
    [] OTHER -> FALSE

\* JSON.stringify(x): [ok |-> FALSE] when it throws
JSONStringify(x) ==
  IF HasCycle(x) THEN [ok |-> FALSE, text |-> <<>>]
  ELSE [ok |-> TRUE, text |-> StringifyValue(x)]

ParseFail == [ok |-> FALSE, val |-> Undefined, rest |-> <<>>]
ParseOk(x, rest) == [ok |-> TRUE, val |-> x, rest |-> rest]

RECURSIVE ParseValue(_), ParseElems(_, _), ParseProps(_, _)

\* one JSON value at the head of the lexemes s, and what follows it
ParseValue(s) ==
  IF Len(s) = 0 THEN ParseFail
  ELSE LET h == Head(s)
           r == Tail(s)
       IN CASE T(h) = "word" ->
                 (CASE h.word = "null" -> ParseOk(Null, r)
                    [] h.word = "true" -> ParseOk(Bool(TRUE), r)
                    [] h.word = "false" -> ParseOk(Bool(FALSE), r)
                    [] OTHER -> ParseFail)
            [] T(h) = "numlex" -> ParseOk(Num(h.numlex), r)
            [] T(h) = "strlex" -> ParseOk(h.strlex, r)
            [] IsPunct(h, "[") ->
                 IF Len(r) > 0 /\ IsPunct(Head(r), "]")
                 THEN ParseOk(Arr(<<>>), Tail(r))
                 ELSE ParseElems(r, <<>>)
            [] IsPunct(h, "{") ->
                 IF Len(r) > 0 /\ IsPunct(Head(r), "}")
                 THEN ParseOk(Obj(<<>>), Tail(r))
                 ELSE ParseProps(r, <<>>)
            [] OTHER -> ParseFail

\* the elements of an array after "[" or ",", up to "]"
ParseElems(s, acc) ==
  LET e == ParseValue(s) IN
  IF ~e.ok \/ Len(e.rest) = 0 THEN ParseFail
  ELSE IF IsPunct(Head(e.rest), ",")
       THEN ParseElems(Tail(e.rest), Append(acc, e.val))
  ELSE IF IsPunct(Head(e.rest), "]")
       THEN ParseOk(Arr(Append(acc, e.val)), Tail(e.rest))
  ELSE ParseFail

\* the properties of an object after "{" or ",", up to "}"
ParseProps(s, acc) ==
  IF Len(s) < 2 \/ T(Head(s)) # "strlex" \/ ~IsPunct(s[2], ":") THEN ParseFail
  ELSE IF T(Head(s).strlex) # "string" THEN ParseFail
  ELSE LET name == Head(s).strlex.string
           e == ParseValue(Tail(Tail(s)))
       IN IF ~e.ok \/ Len(e.rest) = 0 THEN ParseFail
          ELSE IF IsPunct(Head(e.rest), ",")
               THEN ParseProps(Tail(e.rest), SetField(Obj(acc), name, e.val).object)
          ELSE IF IsPunct(Head(e.rest), "}")
               THEN ParseOk(SetField(Obj(acc), name, e.val), Tail(e.rest))
          ELSE ParseFail

\* JSON.parse(text): [ok |-> FALSE] when it throws a SyntaxError
JSONParse(text) ==
  Let(ParseValue(text), LAMBDA p :
    IF p.ok /\ Len(p.rest) = 0 THEN [ok |-> TRUE, val |-> p.val]
    ELSE [ok |-> FALSE, val |-> Undefined])

----------------------------------------------------------------------------
(* window.localStorage: a function from the keys present to their text.    *)
(* setItem throws a QuotaExceededError when the texts kept for the origin  *)
(* would take more than the quota; a key counts 1, a text its length.      *)

NoStorage == [k \in {} |-> <<>>]

RECURSIVE Used(_)
Used(ls) ==
  IF DOMAIN ls = {} THEN 0
  ELSE LET k == CHOOSE x \in DOMAIN ls : TRUE IN
       1 + Len(ls[k]) + Used([x \in DOMAIN ls \ {k} |-> ls[x]])

removeItem(ls, key) == [x \in DOMAIN ls \ {key} |-> ls[x]]

Fits(ls, q, key, text) == Used(removeItem(ls, key)) + 1 + Len(text) <= q

setItem(ls, key, text) == (key :> text) @@ ls

----------------------------------------------------------------------------
(* StorageUtil (js/utils/storage.js)                                       *)

ThirtyDays == 43200

StorageRemove(ls, key) == removeItem(ls, key)

\* the keys clearOldData removes at time t
OldKeys(ls, t) ==
  {key \in DOMAIN ls :
     Let(JSONParse(ls[key]), LAMBDA p :
       /\ p.ok
       /\ Truthy(p.val)
       /\ Truthy(Field(p.val, "timestamp"))
       /\ LessThan(Field(p.val, "timestamp"), t - ThirtyDays))}

ClearOldData(ls, t) == [x \in DOMAIN ls \ OldKeys(ls, t) |-> ls[x]]

\* set(key, value) at time t: the storage it leaves and what it returns
StorageSet(ls, q, t, key, value) ==
  Let(JSONStringify(value), LAMBDA s :
    IF ~s.ok THEN [ls |-> ls, ok |-> FALSE]
    ELSE IF Fits(ls, q, key, s.text)
         THEN [ls |-> setItem(ls, key, s.text), ok |-> TRUE]
    ELSE Let(ClearOldData(ls, t), LAMBDA cleared :
           IF Fits(cleared, q, key, s.text)
           THEN [ls |-> setItem(cleared, key, s.text), ok |-> TRUE]
           ELSE [ls |-> cleared, ok |-> FALSE]))

\* get written as JSON.parse(item) || defaultValue
StorageGetOrDefault(ls, key, defaultValue) ==
  IF key \notin DOMAIN ls THEN defaultValue
  ELSE Let(JSONParse(ls[key]), LAMBDA p :
         IF p.ok /\ Truthy(p.val) THEN p.val ELSE defaultValue)

StorageGet(ls, key, defaultValue) ==
  IF key \notin DOMAIN ls THEN defaultValue
  ELSE Let(JSONParse(ls[key]), LAMBDA p :
         IF p.ok THEN p.val ELSE defaultValue)

\* append without the Array.isArray check
StorageAppendUnchecked(ls, q, t, key, value) ==
  Let(StorageGet(ls, key, Arr(<<>>)), LAMBDA existing :
    StorageSet(ls, q, t, key,
               Arr(Append(IF T(existing) = "array" THEN existing.array
                          ELSE <<>>, value))))

StorageAppend(ls, q, t, key, value) ==
  Let(StorageGet(ls, key, Arr(<<>>)), LAMBDA existing :
    IF T(existing) # "array" THEN [ls |-> ls, ok |-> FALSE]
    ELSE StorageSet(ls, q, t, key, Arr(Append(existing.array, value))))

----------------------------------------------------------------------------
(* CONFIG (js/utils/api.js)                                                *)

AUTH_TOKEN == "db_auth_token"
USER_DATA == "db_user_data"
USERS == "db_users"
ADMIN_SESSION == "db_admin_session"
REMEMBER_ME == "db_remember_me"

ConfigAdmin == [USERNAME |-> "admin", PASSWORD |-> "admin12345",
                EMAIL |-> "admin@dbgeneralconstruction.com.et"]

TIMEOUT == 30
WARNING_TIME == 5
\* the delay of the session checker's setInterval
CheckInterval == 1

----------------------------------------------------------------------------
(* Tokens (js/utils/auth.js). A token is the string header.body.signature; *)
(* a part is the base64 encoding of a text, or not base64 at all.          *)

Btoa(text) == [b64 |-> text]
NotBase64(text) == [raw |-> text]

\* generateToken(payload, expiry) at time t; expiry 0 stands for null
GenerateToken(payload, expiry, t) ==
  LET header == Btoa(JSONStringify(
                  Obj(<<<<"alg", Str("HS256")>>, <<"typ", Str("JWT")>>>>)).text)
      body == Btoa(JSONStringify(
                SetField(SetField(payload, "iat", Num(t)), "exp",
                         Num(t + (IF expiry # 0 THEN expiry ELSE TIMEOUT)))).text)
      signature == Btoa(<<Word("mock-signature-"), NumLex(t)>>)
  IN Dotted(<<header, body, signature>>)

\* token.split('.'): the strings of the model that are not Dotted hold no dot
\* (an ISO date holds one: it splits in two, not three, either way)
Split(token) ==
  IF T(token) = "dotted" THEN token.dotted ELSE <<NotBase64(token)>>

\* decodeToken(token): the payload, or null
DecodeToken(token) ==
  IF ~Truthy(token) \/ ~IsString(token) THEN Null
  ELSE Let(Split(token), LAMBDA parts :
         IF Len(parts) # 3 THEN Null
         ELSE IF T(parts[2]) # "b64" THEN Null
         ELSE Let(JSONParse(parts[2].b64), LAMBDA p :
                IF p.ok THEN p.val ELSE Null))



\* verifyToken(token) at time t
VerifyToken(token, t) ==
  Let(DecodeToken(token), LAMBDA payload :
    IF ~Truthy(payload) THEN FALSE
    ELSE IF Truthy(Field(payload, "exp"))
            /\ LessThan(Field(payload, "exp"), t)
         THEN FALSE
    ELSE TRUE)

\* isAuthenticated(): token && this.verifyToken(token)
IsAuthenticated(ls, t) ==
  Let(StorageGet(ls, AUTH_TOKEN, Null), LAMBDA token :
    IF ~Truthy(token) THEN token ELSE Bool(VerifyToken(token, t)))

\* a getCurrentUser() that returns the stored user data without looking at
\* the token
GetCurrentUserUnverified(ls, t) == StorageGet(ls, USER_DATA, Null)

\* getCurrentUser()
GetCurrentUser(ls, t) ==
  Let(StorageGet(ls, AUTH_TOKEN, Null), LAMBDA token :
    IF ~Truthy(token) \/ ~VerifyToken(token, t) THEN Null
    ELSE StorageGet(ls, USER_DATA, Null))

\* hasRole(role): user && user.role === role
HasRole(ls, t, role) ==
  Let(GetCurrentUser(ls, t), LAMBDA user :
    IF ~Truthy(user) THEN user ELSE Bool(Field(user, "role") = Str(role)))

IsAdmin(ls, t) == HasRole(ls, t, "admin")

----------------------------------------------------------------------------
(* The page: the storage and what lives in the window. Operations map a    *)
(* page pg = [ls, interval, timers, since, listening] to the page they     *)
(* leave.                                                                  *)

\* setInterval returns an id that no interval in use and no handle holds
NewTimerId(used) == CHOOSE id \in 1..(Cardinality(used) + 1) : id \notin used

\* clearInterval(id)
ClearInterval(pg, id) == [pg EXCEPT !.timers = @ \ {id}]

SetupActivityListeners(pg) == [pg EXCEPT !.listening = TRUE]


\* a startSessionChecker() that sets its interval without clearing the one
\* before
StartSessionCheckerKeep(pg) ==
  LET id == NewTimerId(pg.timers \cup {pg.interval})
  IN [pg EXCEPT !.timers = @ \cup {id}, !.interval = id, !.since = 0]

\* startSessionChecker(): the interval's callback is SessionCheck below
StartSessionChecker(pg) ==
  LET cleared == IF pg.interval # 0 THEN ClearInterval(pg, pg.interval) ELSE pg
      id == NewTimerId(cleared.timers \cup {pg.interval})
  IN [cleared EXCEPT !.timers = @ \cup {id}, !.interval = id, !.since = 0]


\* clearSession()
ClearSession(pg) ==
  IF pg.interval # 0
  THEN [ClearInterval(pg, pg.interval) EXCEPT !.interval = 0]
  ELSE pg

NewSession(t) ==
  Obj(<<<<"startTime", Num(t)>>, <<"lastActivity", Num(t)>>,
        <<"warningShown", Bool(FALSE)>>>>)

\* initSession()
InitSession(pg, q, t) ==
  StartSessionChecker(SetupActivityListeners(
    [pg EXCEPT !.ls = StorageSet(pg.ls, q, t, ADMIN_SESSION, NewSession(t)).ls]))

\* an updateActivity() that takes the event for the start of the session
UpdateActivityRestart(ls, q, t) ==
  Let(StorageGet(ls, ADMIN_SESSION, Null), LAMBDA session :
    IF Truthy(session)
    THEN StorageSet(ls, q, t, ADMIN_SESSION,
           SetField(SetField(SetField(session, "startTime", Num(t)),
                             "lastActivity", Num(t)),
                    "warningShown", Bool(FALSE))).ls
    ELSE ls)

\* an updateActivity() that also issued a new token for the stored payload
UpdateActivityRefresh(ls, q, t) ==
  Let(StorageGet(ls, ADMIN_SESSION, Null), LAMBDA session :
    IF Truthy(session)
    THEN StorageSet(
           StorageSet(ls, q, t, ADMIN_SESSION,
             SetField(SetField(session, "lastActivity", Num(t)),
                      "warningShown", Bool(FALSE))).ls,
           q, t, AUTH_TOKEN,
           GenerateToken(DecodeToken(StorageGet(ls, AUTH_TOKEN, Null)), 0,
                         t)).ls
    ELSE ls)

\* updateActivity()
UpdateActivity(ls, q, t) ==
  Let(StorageGet(ls, ADMIN_SESSION, Null), LAMBDA session :
    IF Truthy(session)
    THEN StorageSet(ls, q, t, ADMIN_SESSION,
           SetField(SetField(session, "lastActivity", Num(t)),
                    "warningShown", Bool(FALSE))).ls
    ELSE ls)

\* logout() that leaves the remember-me record
LogoutKeepRemember(pg) ==
  ClearSession([pg EXCEPT !.ls =
    StorageRemove(StorageRemove(StorageRemove(pg.ls, AUTH_TOKEN), USER_DATA),
                  ADMIN_SESSION)])

\* logout()
Logout(pg) ==
  ClearSession([pg EXCEPT !.ls =
    StorageRemove(StorageRemove(StorageRemove(StorageRemove(
      pg.ls, AUTH_TOKEN), USER_DATA), ADMIN_SESSION), REMEMBER_ME)])

----------------------------------------------------------------------------
(* Login (js/utils/auth.js)                                                *)

\* the demo accounts initDemoUsers stores at time t (three of the thirteen:
\* the administrator, a member of staff and a deactivated client; name and
\* createdAt, which nothing reads, are left out, and the list of projects of
\* the member of staff is cut to its first)
DemoUsers(t) ==
  Arr(<< Obj(<< <<"id", Str("admin-001")>>, <<"username", Str("admin")>>,
                <<"email", Str("admin@dbconstruction.com")>>,
                <<"password", Str("admin12345")>>, <<"role", Str("admin")>>,
                <<"projectIds", Arr(<<>>)>>, <<"lastLogin", IsoDate(t)>>,
                <<"isActive", Bool(TRUE)>> >>),
         Obj(<< <<"id", Str("staff-001")>>, <<"username", Str("moti.elias")>>,
                <<"email", Str("moti@dbconstruction.com")>>,
                <<"password", Str("staff123")>>, <<"role", Str("staff")>>,
                <<"projectIds", Arr(<<Str("proj-001")>>)>>,
                <<"lastLogin", IsoDate(t - 2 * 24 * 60)>>,
                <<"isActive", Bool(TRUE)>> >>),
         Obj(<< <<"id", Str("client-008")>>, <<"username", Str("demo.client")>>,
                <<"email", Str("demo@example.com")>>,
                <<"password", Str("demo123")>>, <<"role", Str("client")>>,
                <<"projectIds", Arr(<<>>)>>, <<"lastLogin", Null>>,
                <<"isActive", Bool(FALSE)>> >>) >>)

\* initDemoUsers()
InitDemoUsers(ls, q, t) ==
  Let(StorageGet(ls, USERS, Arr(<<>>)), LAMBDA existingUsers :
    IF T(existingUsers) = "array" /\ Len(existingUsers.array) = 0
    THEN StorageSet(ls, q, t, USERS, DemoUsers(t)).ls
    ELSE ls)

\* a failed login that ended the session in place
LoginFailedClears(pg) ==
  [pg |-> Logout(pg), success |-> FALSE, user |-> Undefined,
   token |-> Undefined]

\* what a failed login returns
LoginFailed(pg) ==
  [pg |-> pg, success |-> FALSE, user |-> Undefined, token |-> Undefined]

\* the stores of a login without the remember-me record
StoreLoginForget(pg, q, t, token, user, remember) ==
  [pg EXCEPT !.ls = StorageSet(StorageSet(pg.ls, q, t, AUTH_TOKEN, token).ls,
                               q, t, USER_DATA, user).ls]

\* token, user data and, when asked for, the remember-me record are stored,
\* then initSession() runs
StoreLogin(pg, q, t, token, user, remember) ==
  Let(StorageSet(StorageSet(pg.ls, q, t, AUTH_TOKEN, token).ls,
                 q, t, USER_DATA, user).ls, LAMBDA ls :
    [pg EXCEPT !.ls = IF remember = 0 THEN ls
                      ELSE StorageSet(ls, q, t, REMEMBER_ME,
                             Obj(<<<<"enabled", Bool(TRUE)>>,
                                   <<"expiry", Num(t + remember)>>>>)).ls])

\* the payload login gives generateToken: { userId: user.id, role: user.role }
TokenPayload(user) ==
  Obj(<<<<"userId", Field(user, "id")>>, <<"role", Field(user, "role")>>>>)

\* what a login returns once the token is made: it is stored with the user
\* data, the session starts, and both are handed to the caller
LoginDone(pg, q, t, token, user, remember) ==
  [pg |-> InitSession(StoreLogin(pg, q, t, token, user, remember), q, t),
   success |-> TRUE, user |-> user, token |-> token]

\* authenticateAdmin(username, password)
AuthenticateAdmin(pg, q, t, username, password) ==
  LET ADMIN_USERNAME == "admin"
      ADMIN_PASSWORD == "admin12345"
  IN IF username = ADMIN_USERNAME /\ password = ADMIN_PASSWORD
     THEN Let(Obj(<< <<"id", Str("admin-001")>>,
                     <<"username", Str(ADMIN_USERNAME)>>,
                     <<"email", Str("admin@dbconstruction.com")>>,
                     <<"name", Str("Administrator")>>,
                     <<"role", Str("admin")>>,
                     <<"isActive", Bool(TRUE)>> >>), LAMBDA user :
            LoginDone(pg, q, t, GenerateToken(TokenPayload(user), 0, t),
                      user, 0))
     ELSE LoginFailed(pg)

\* users.find(u => (u.username === username || u.email === username) &&
\*                 u.password === password && u.isActive): its index, or 0
FindUser(users, username, password) ==
  Let({i \in 1..Len(users) :
         /\ \/ Field(users[i], "username") = Str(username)
            \/ Field(users[i], "email") = Str(username)
         /\ Field(users[i], "password") = Str(password)
         /\ Truthy(Field(users[i], "isActive"))}, LAMBDA hits :
    IF hits = {} THEN 0 ELSE CHOOSE i \in hits : \A j \in hits : i <= j)

\* loginLocalStorage once users.find has found users[i]: user data without
\* the password, and lastLogin updated in the stored list
LoginFound(pg, q, t, users, i, tokenExpiry, remember) ==
  Let(GenerateToken(TokenPayload(users[i]), tokenExpiry, t), LAMBDA token :
    Let(WithoutField(users[i], "password"), LAMBDA userData :
      Let(StoreLogin(pg, q, t, token, userData, remember), LAMBDA pg1 :
        [pg |-> InitSession(
                  [pg1 EXCEPT !.ls =
                     StorageSet(pg1.ls, q, t, USERS,
                       Arr([users EXCEPT ![i] =
                              SetField(users[i], "lastLogin", IsoDate(t))])).ls],
                  q, t),
         success |-> TRUE, user |-> userData, token |-> token])))

\* loginLocalStorage(username, password, rememberMe)
LoginLocalStorage(pg, q, t, username, password, rememberMe) ==
  Let(IF rememberMe THEN ThirtyDays ELSE TIMEOUT, LAMBDA tokenExpiry :
    IF username = ConfigAdmin.USERNAME /\ password = ConfigAdmin.PASSWORD
    THEN Let(Obj(<< <<"id", Str("admin-001")>>,
                    <<"username", Str(ConfigAdmin.USERNAME)>>,
                    <<"email", Str(ConfigAdmin.EMAIL)>>,
                    <<"name", Str("Dale Melaku")>>,
                    <<"role", Str("admin")>>,
                    <<"isActive", Bool(TRUE)>> >>), LAMBDA user :
           LoginDone(pg, q, t,
                     GenerateToken(TokenPayload(user), tokenExpiry, t), user,
                     IF rememberMe THEN tokenExpiry ELSE 0))
    ELSE Let(StorageGet(pg.ls, USERS, Arr(<<>>)), LAMBDA stored :
           Let(IF T(stored) = "array" THEN stored.array ELSE <<>>, LAMBDA users :
             Let(FindUser(users, username, password), LAMBDA i :
               IF i = 0 THEN LoginFailed(pg)
               ELSE LoginFound(pg, q, t, users, i, tokenExpiry,
                               IF rememberMe THEN tokenExpiry ELSE 0)))))

\* What API.auth.login did: "undefined" (the API object is not on the page),
\* "throws" (network failure, timeout, HTTP error status) or "ok" with the
\* parsed body of the response.
ApiAbsent == [kind |-> "undefined", body |-> Null]
ApiThrows == [kind |-> "throws", body |-> Null]
ApiAnswer(body) == [kind |-> "ok", body |-> body]

\* response.success throws a TypeError when the parsed body is null
ThrowsOnAccess(body) == T(body) \in {"null", "undefined"}

\* loginWithAPI(username, password, rememberMe), which login() calls; what
\* the try block throws is caught and the local login runs
LoginWithAPI(pg, q, t, username, password, rememberMe, resp) ==
  IF resp.kind = "ok" /\ ~ThrowsOnAccess(resp.body)
  THEN IF Truthy(Field(resp.body, "success"))
       THEN LoginDone(pg, q, t, Field(resp.body, "token"),
                      Field(resp.body, "user"),
                      IF rememberMe THEN ThirtyDays ELSE 0)
       ELSE LoginFailed(pg)
  ELSE LoginLocalStorage(pg, q, t, username, password, rememberMe)

----------------------------------------------------------------------------
(* The session checker and the pages                                       *)

IsAdminPath(path) == path \in {"/admin/dashboard.html", "/admin/login.html"}

\* the window of a page just loaded; DOMContentLoaded runs initDemoUsers()
LoadPage(ls, q, t) ==
  [ls |-> InitDemoUsers(ls, q, t), interval |-> 0, timers |-> {},
   since |-> 0, listening |-> FALSE]

\* the checker's test for showing the warning, without the warningShown flag
ShouldWarnAgain(session, inactiveTime) ==
  inactiveTime >= TIMEOUT - WARNING_TIME

\* inactiveTime >= (TIMEOUT - WARNING_TIME) && !session.warningShown
ShouldWarn(session, inactiveTime) ==
  /\ inactiveTime >= TIMEOUT - WARNING_TIME
  /\ ~Truthy(Field(session, "warningShown"))

\* showSessionWarning(): answer is what the user clicks in confirm()
ShowSessionWarning(ls, q, t, answer) ==
  IF answer THEN UpdateActivity(ls, q, t) ELSE ls

\* the checker once the inactivity test has been made on the page pg1 that
\* the warning left: logout and redirection when the session timed out
SessionExpiry(pg1, q, t, path, inactiveTime, warn) ==
  IF inactiveTime >= TIMEOUT
  THEN Let(Logout(pg1), LAMBDA pg2 :
         Let(ClearInterval(pg2, pg2.interval), LAMBDA pg3 :
           [pg |-> IF IsAdminPath(path) THEN LoadPage(pg3.ls, q, t) ELSE pg3,
            path |-> IF IsAdminPath(path) THEN "/admin/login.html" ELSE path,
            ran |-> TRUE, inactive |-> inactiveTime, warned |-> warn,
            out |-> TRUE]))
  ELSE [pg |-> pg1, path |-> path, ran |-> TRUE,
        inactive |-> inactiveTime, warned |-> warn, out |-> FALSE]

\* the checker once it has read the session record: the warning, then the
\* stale record is written back with warningShown set
SessionWarning(pg, q, t, answer, path, session, inactiveTime, warn) ==
  SessionExpiry(
    IF warn
    THEN [pg EXCEPT !.ls =
            StorageSet(ShowSessionWarning(pg.ls, q, t, answer), q, t,
              ADMIN_SESSION,
              SetField(session, "warningShown", Bool(TRUE))).ls]
    ELSE pg,
    q, t, path, inactiveTime, warn)

\* One run of the interval's callback at time t on the page at path; the
\* answer to confirm() is taken at once. What it leaves, and what it did.
SessionCheck(pg, q, t, answer, path) ==
  IF ~Truthy(IsAuthenticated(pg.ls, t))
  THEN [pg |-> ClearInterval(pg, pg.interval), path |-> path, ran |-> FALSE,
        inactive |-> 0, warned |-> FALSE, out |-> FALSE]
  ELSE Let(StorageGet(pg.ls, ADMIN_SESSION, Null), LAMBDA session :
         IF ~Truthy(session)
         THEN [pg |-> pg, path |-> path, ran |-> FALSE,
               inactive |-> 0, warned |-> FALSE, out |-> FALSE]
         ELSE Let(t - Field(session, "lastActivity").number,
                  LAMBDA inactiveTime :
                SessionWarning(pg, q, t, answer, path, session, inactiveTime,
                               ShouldWarn(session, inactiveTime))))

----------------------------------------------------------------------------
(* The storage utility on its own: calls of set, get, remove and append    *)
(* with keys and values drawn from small sets, in a storage that may       *)
(* already hold an entry written more than thirty days ago.                *)

MaxNum == 1
SmallQuota == 11
AmpleQuota == 400

StoreKeys == {"k1", "k2"}

Atoms == {Null, Bool(FALSE), Bool(TRUE), Str(""), Str("a")}
           \cup {Num(n) : n \in 0..MaxNum}

\* values JSON can represent
JsonValues ==
  Atoms \cup
  { Arr(<<>>), Arr(<<Num(1), Null>>), Arr(<<Arr(<<>>), Str("")>>),
    Obj(<<>>), Obj(<<<<"a", Num(0)>>>>),
    Obj(<<<<"o", Arr(<<Obj(<<>>), Bool(FALSE)>>)>>>>) }

\* values JSON cannot represent as they are
OtherValues == {Undefined, Cyclic, Arr(<<Undefined>>)}

AppendValues == {Num(1), Null, Undefined}

Defaults == {Null, Str("dflt")}

\* a record { data, timestamp } as setWithTimestamp writes it
Stamped(data, t) == Obj(<<<<"data", data>>, <<"timestamp", Num(t)>>>>)

StorageStart == ThirtyDays + 2

InitialStores ==
  { NoStorage,
    "old" :> JSONStringify(Stamped(Num(0), 1)).text }

InitStorage ==
  /\ localStorage \in InitialStores
  /\ quota = SmallQuota
  /\ now = StorageStart
  /\ sessionCheckInterval = 0
  /\ timers = {}
  /\ sinceTick = 0
  /\ listening = FALSE
  /\ location = "/index.html"
  /\ request = NoRequest
  /\ heap = NoHeap
  /\ handler = NoHandler
  /\ hist = [none |-> TRUE]
  /\ last = [op |-> "init"]

PageIdle == UNCHANGED <<sessionCheckInterval, timers, sinceTick, listening,
                        location, request, handler, heap, hist>>

SetOp(key, value) ==
  /\ Let(StorageSet(localStorage, quota, now, key, value), LAMBDA r :
       /\ localStorage' = r.ls
       /\ last' = [op |-> "set", key |-> key, value |-> value, res |-> r.ok])
  /\ UNCHANGED <<quota, now>>
  /\ PageIdle

GetOp(key, defaultValue) ==
  /\ last' = [op |-> "get", key |-> key, dflt |-> defaultValue,
              res |-> StorageGet(localStorage, key, defaultValue)]
  /\ UNCHANGED <<localStorage, quota, now>>
  /\ PageIdle

RemoveOp(key) ==
  /\ localStorage' = StorageRemove(localStorage, key)
  /\ last' = [op |-> "remove", key |-> key, res |-> TRUE]
  /\ UNCHANGED <<quota, now>>
  /\ PageIdle

AppendOp(key, value) ==
  /\ Let(StorageAppend(localStorage, quota, now, key, value), LAMBDA r :
       /\ localStorage' = r.ls
       /\ last' = [op |-> "append", key |-> key, value |-> value,
                   res |-> r.ok])
  /\ UNCHANGED <<quota, now>>
  /\ PageIdle

NextStorage ==
  \/ \E key \in StoreKeys, value \in JsonValues \cup OtherValues :
       SetOp(key, value)
  \/ \E key \in StoreKeys, d \in Defaults : GetOp(key, d)
  \/ \E key \in StoreKeys \cup {"old"} : RemoveOp(key)
  \/ \E key \in StoreKeys, value \in AppendValues : AppendOp(key, value)

SpecStorage == InitStorage /\ [][NextStorage]_vars

----------------------------------------------------------------------------
(* Properties of the storage utility (SpecStorage)                         *)

RECURSIVE IsJson(_)
\* x is a value of JSON: no undefined and no cycle anywhere in it
IsJson(x) ==
  CASE T(x) \in {"undefined", "cyclic"} -> FALSE
    [] T(x) = "array" -> \A i \in 1..Len(x.array) : IsJson(x.array[i])
    [] T(x) = "object" -> \A i \in 1..Len(x.object) : IsJson(x.object[i][2])
    [] OTHER -> TRUE

\* C5 as stated: after set(k, v) with a JSON value v, get(k, d) returns v
\* for every default d.
C5_RoundTripAlways ==
  (last.op = "set" /\ IsJson(last.value)) =>
    \A d \in Defaults : StorageGet(localStorage, last.key, d) = last.value

\* C5, amended: after a set(k, v) that returned true, with a JSON value v,
\* get(k, d) returns a value equal to v for every default d.
C5_RoundTrip ==
  (last.op = "set" /\ IsJson(last.value) /\ last.res) =>
    \A d \in Defaults : StorageGet(localStorage, last.key, d) = last.value

\* a falsy value was stored and is read back although a default is given
C5_Witness ==
  /\ last.op = "set" /\ last.res
  /\ last.value \in {Null, Bool(FALSE), Num(0), Str("")}
  /\ StorageGet(localStorage, last.key, Str("dflt")) = last.value

\* a set that found no room even after the eviction
C5_QuotaWitness ==
  last.op = "set" /\ IsJson(last.value) /\ ~last.res

\* C6: append(k, x) on a key holding a JSON value that is not an array
\* returns false and changes no key; on an absent key or a stored array it
\* does set(k, array extended by x at the end) and returns set's result, so
\* that the extended array is what get(k) returns when that result is true.
C6_Append ==
  [][last'.op = "append" =>
       LET key == last'.key
           x == last'.value
           present == key \in DOMAIN localStorage
           p == IF present THEN JSONParse(localStorage[key])
                ELSE [ok |-> FALSE, val |-> Undefined]
       IN IF present /\ p.ok /\ T(p.val) # "array"
          THEN last'.res = FALSE /\ localStorage' = localStorage
          ELSE IF present /\ ~p.ok THEN TRUE
          ELSE LET ext == Arr(Append(IF present THEN p.val.array ELSE <<>>, x))
                   r == StorageSet(localStorage, quota, now, key, ext)
               IN /\ last'.res = r.ok
                  /\ localStorage' = r.ls
                  /\ (r.ok /\ IsJson(x)) =>
                        StorageGet(localStorage', key, Null) = ext
                  /\ ~r.ok => StorageGet(localStorage', key, Arr(<<>>))
                                = StorageGet(localStorage, key, Arr(<<>>))
  ]_vars

\* an append was refused because the key holds an object, a string, a
\* number, a boolean or null
C6_Witness ==
  /\ last.op = "append" /\ ~last.res
  /\ last.key \in DOMAIN localStorage
  /\ JSONParse(localStorage[last.key]).ok
  /\ T(JSONParse(localStorage[last.key]).val)
       \in {"object", "string", "number", "boolean", "null"}

\* an append extended a stored array
C6_WitnessArray ==
  /\ last.op = "append" /\ last.res
  /\ Len(StorageGet(localStorage, last.key, Arr(<<>>)).array) >= 2

----------------------------------------------------------------------------
(* The pages of the site in a browser: logins, activity, the session       *)
(* checker, navigation and the passing of time.                            *)

Page ==
  [ls |-> localStorage, interval |-> sessionCheckInterval, timers |-> timers,
   since |-> sinceTick, listening |-> listening]

SetPage(pg) ==
  /\ localStorage' = pg.ls
  /\ sessionCheckInterval' = pg.interval
  /\ timers' = pg.timers
  /\ sinceTick' = pg.since
  /\ listening' = pg.listening

\* where the session stands, going by the storage alone
StateClass(ls, t) ==
  Let(StorageGet(ls, AUTH_TOKEN, Null), LAMBDA token :
    IF ~Truthy(token) THEN "LoggedOut"
    ELSE IF ~VerifyToken(token, t) THEN "Expired"
    ELSE IF Truthy(Field(StorageGet(ls, ADMIN_SESSION, Null), "warningShown"))
         THEN "Warned"
    ELSE "Active")

\* time since the stored lastActivity; -1 if there is no session record
Inactivity(ls, t) ==
  Let(StorageGet(ls, ADMIN_SESSION, Null), LAMBDA session :
    IF Truthy(session) /\ T(Field(session, "lastActivity")) = "number"
    THEN t - Field(session, "lastActivity").number
    ELSE -1)

\* hist: active - a login succeeded and no logout happened since;
\* lastEvent - time of the last login or tracked activity event; gapsOk - all
\* gaps between those, since the login, were shorter than TIMEOUT; warned -
\* how often the warning was shown since lastActivity was last reset by a
\* login or an activity event (counted up to 2); until - while active after
\* a login with rememberMe, the time thirty days after that login, else 0
NoHistory ==
  [active |-> FALSE, lastEvent |-> 0, gapsOk |-> TRUE, warned |-> 0,
   until |-> 0]

Quiet ==
  [op |-> "init", entry |-> "", username |-> "", password |-> "",
   remember |-> FALSE, api |-> "", success |-> FALSE, prior |-> "LoggedOut",
   due |-> FALSE, body |-> Null,
   ran |-> FALSE, inactive |-> 0, warned |-> FALSE, answer |-> FALSE,
   out |-> FALSE]

InitPages ==
  /\ quota = AmpleQuota
  /\ now = 1
  /\ localStorage = InitDemoUsers(NoStorage, AmpleQuota, 1)
  /\ sessionCheckInterval = 0
  /\ timers = {}
  /\ sinceTick = 0
  /\ listening = FALSE
  /\ location = "/admin/login.html"
  /\ request = NoRequest
  /\ heap = NoHeap
  /\ handler = NoHandler
  /\ hist = NoHistory
  /\ last = Quiet

\* the call of the entry point a login attempt goes through
LoginCall(entry, pg, q, t, username, password, rememberMe, resp) ==
  CASE entry = "login" ->
         LoginWithAPI(pg, q, t, username, password, rememberMe, resp)
    [] entry = "loginLocalStorage" ->
         LoginLocalStorage(pg, q, t, username, password, rememberMe)
    [] OTHER ->
         AuthenticateAdmin(pg, q, t, username, password)

\* AuthUtil.login / loginLocalStorage / authenticateAdmin called on the page
Login(entry, username, password, rememberMe, resp) ==
  /\ entry = "login" \/ resp = ApiAbsent
  /\ entry # "authenticateAdmin" \/ ~rememberMe
  /\ Let(LoginCall(entry, Page, quota, now, username, password, rememberMe,
                   resp), LAMBDA r :
       /\ SetPage(r.pg)
       /\ hist' = IF r.success
                  THEN [active |-> TRUE, lastEvent |-> now, gapsOk |-> TRUE,
                        warned |-> 0,
                        until |-> IF rememberMe THEN now + ThirtyDays ELSE 0]
                  ELSE hist
       /\ last' = [Quiet EXCEPT !.op = "login", !.entry = entry,
                     !.username = username, !.password = password,
                     !.remember = rememberMe, !.api = resp.kind,
                     !.body = resp.body,
                     !.success = r.success,
                     !.prior = StateClass(localStorage, now)])
  /\ UNCHANGED <<quota, now, location, request, handler, heap>>

\* AuthUtil.logout()
LogoutOp ==
  /\ SetPage(Logout(Page))
  /\ hist' = [hist EXCEPT !.active = FALSE, !.until = 0]
  /\ last' = [Quiet EXCEPT !.op = "logout", !.success = TRUE,
                !.prior = StateClass(localStorage, now)]
  /\ UNCHANGED <<quota, now, location, request, handler, heap>>

\* a mousedown, keydown, scroll or touchstart reaches the listeners
Activity ==
  /\ listening
  /\ Let(Truthy(IsAuthenticated(localStorage, now)), LAMBDA tracked :
       /\ localStorage' = IF tracked
                          THEN UpdateActivity(localStorage, quota, now)
                          ELSE localStorage
       /\ hist' = [hist EXCEPT
                     !.lastEvent = now,
                     !.gapsOk = @ /\ now - hist.lastEvent < TIMEOUT,
                     !.warned = IF tracked /\ Inactivity(localStorage, now) >= 0
                                THEN 0 ELSE @]
       /\ last' = [Quiet EXCEPT !.op = "activity", !.success = tracked,
                     !.prior = StateClass(localStorage, now)])
  /\ UNCHANGED <<quota, now, sessionCheckInterval, timers, sinceTick,
                 listening, location, request, handler, heap>>

\* the interval set by startSessionChecker fires; it never fires early
Tick(answer) ==
  /\ timers # {}
  /\ sinceTick >= CheckInterval
  /\ Let(SessionCheck([Page EXCEPT !.since = 0], quota, now, answer, location),
         LAMBDA r :
       /\ answer => r.warned
       /\ SetPage(r.pg)
       /\ location' = r.path
       /\ hist' = [hist EXCEPT
                     !.active = @ /\ ~r.out,
                     !.until = IF r.out THEN 0 ELSE @,
                     !.warned = IF r.warned /\ @ < 2 THEN @ + 1 ELSE @,
                     !.lastEvent = IF r.warned /\ answer THEN now ELSE @,
                     !.gapsOk = IF r.warned /\ answer
                                THEN @ /\ now - hist.lastEvent < TIMEOUT
                                ELSE @]
       /\ last' = [Quiet EXCEPT !.op = "tick", !.ran = r.ran,
                     !.inactive = r.inactive, !.warned = r.warned,
                     !.answer = answer, !.out = r.out,
                     !.due = hist.active
                             /\ Inactivity(localStorage, now) >= TIMEOUT,
                     !.prior = StateClass(localStorage, now)])
  /\ UNCHANGED <<quota, now, request, handler, heap>>

\* the browser loads a page of the site
PageLoad(path) ==
  /\ SetPage(LoadPage(localStorage, quota, now))
  /\ location' = path
  /\ last' = [Quiet EXCEPT !.op = "load",
                !.prior = StateClass(localStorage, now)]
  /\ UNCHANGED <<quota, now, request, handler, heap, hist>>

\* time passes, up to the end of the observation
Advance(d, end) ==
  /\ now + d <= end
  /\ now' = now + d
  /\ sinceTick' = IF sinceTick + d >= CheckInterval THEN CheckInterval
                  ELSE sinceTick + d
  /\ last' = [Quiet EXCEPT !.op = "advance"]
  /\ UNCHANGED <<localStorage, quota, sessionCheckInterval, timers,
                 listening, location, request, handler, heap, hist>>

----------------------------------------------------------------------------
(* The session from login to its end: local logins, watched for longer     *)
(* than TIMEOUT.                                                           *)

\* end of the observation: TIMEOUT and SessionSlack after the first minute;
\* the clock is read every WARNING_TIME minutes
SessionSlack == 5
SessionEnd == 1 + TIMEOUT + SessionSlack

Paths == {"/index.html", "/admin/dashboard.html"}

NextSession ==
  \/ \E rememberMe \in BOOLEAN :
       Login("loginLocalStorage", ConfigAdmin.USERNAME, ConfigAdmin.PASSWORD,
             rememberMe, ApiAbsent)
  \/ LogoutOp
  \/ Activity
  \/ \E answer \in BOOLEAN : Tick(answer)
  \/ \E path \in Paths : PageLoad(path)
  \/ Advance(WARNING_TIME, SessionEnd)

SpecSession == InitPages /\ [][NextSession]_vars

----------------------------------------------------------------------------
(* Logging in, by every way in, with and without an answer from the        *)
(* backend.                                                                *)

\* a token the backend made: header.payload.signature, signed for real
RemoteToken(payload) ==
  Dotted(<<Btoa(JSONStringify(
             Obj(<<<<"alg", Str("HS256")>>, <<"typ", Str("JWT")>>>>)).text),
           Btoa(JSONStringify(payload).text),
           NotBase64(Str("signature"))>>)

RemoteAdmin ==
  Obj(<< <<"id", Num(1)>>, <<"email", Str("admin@dbconstruction.com")>>,
         <<"role", Str("admin")>> >>)

Granted(token) ==
  ApiAnswer(Obj(<< <<"success", Bool(TRUE)>>, <<"user", RemoteAdmin>>,
                   <<"token", token>> >>))

Denied ==
  ApiAnswer(Obj(<< <<"success", Bool(FALSE)>>,
                   <<"error", Str("Invalid credentials")>> >>))

\* what the backend may answer at time t when it lets the user in: a token
\* with an expiry, one without, and one that is not a JWT
Grants(t) ==
  { Granted(RemoteToken(Obj(<< <<"userId", Num(1)>>, <<"role", Str("admin")>>,
                               <<"exp", Num(t + TIMEOUT)>> >>))),
    Granted(RemoteToken(Obj(<< <<"userId", Num(1)>>,
                               <<"role", Str("admin")>> >>))),
    Granted(Str("0123456789abcdef")) }

Staff == <<"moti@dbconstruction.com", "staff123">>
Admin == <<ConfigAdmin.USERNAME, ConfigAdmin.PASSWORD>>
Wrong == <<ConfigAdmin.USERNAME, "letmein">>

\* the login attempts made at time t: <<entry, credentials, rememberMe,
\* what the backend does>>
Attempts(t) ==
  { <<"login", Admin, FALSE, resp>> :
      resp \in {ApiAbsent, ApiThrows, Denied} \cup Grants(t) }
  \cup
  { <<"login", Wrong, FALSE, ApiThrows>>,
    <<"loginLocalStorage", Admin, FALSE, ApiAbsent>>,
    <<"loginLocalStorage", Admin, TRUE, ApiAbsent>>,
    <<"loginLocalStorage", Staff, FALSE, ApiAbsent>>,
    <<"loginLocalStorage", Wrong, FALSE, ApiAbsent>>,
    <<"authenticateAdmin", Admin, FALSE, ApiAbsent>>,
    <<"authenticateAdmin", Wrong, FALSE, ApiAbsent>> }

\* the clock is read LoginSpan times after the first minute, each time after
\* the tokens and sessions of the reading before have run out
LoginSpan == 1
LoginEnd == 1 + LoginSpan * (TIMEOUT + WARNING_TIME)

Next ==
  \/ \E a \in Attempts(now) : Login(a[1], a[2][1], a[2][2], a[3], a[4])
  \/ LogoutOp
  \/ PageLoad("/index.html")
  \/ Advance(TIMEOUT + WARNING_TIME, LoginEnd)

Spec == InitPages /\ [][Next]_vars

----------------------------------------------------------------------------
(* verifyToken on its own                                                  *)

\* payloads: with and without exp, and with other fields of every kind
Payloads ==
  { Obj(<< <<"userId", Str("admin-001")>>, <<"role", Str("admin")>>,
           <<"iat", Num(1)>>, <<"exp", Num(e)>> >>) : e \in {-1, 0, 2, 3} }
  \cup
  { Obj(<< <<"exp", Num(e)>> >>) : e \in {0, 2} }
  \cup
  { Obj(<< <<"exp", Num(2)>>, <<"role", Null>>, <<"iat", Str("soon")>> >>),
    Obj(<< <<"userId", Str("admin-001")>>, <<"role", Str("admin")>> >>),
    Obj(<< <<"exp", Null>> >>),
    Obj(<< <<"exp", Str("never")>> >>),
    Obj(<<>>) }

TokenSamples ==
  { RemoteToken(p) : p \in Payloads }
  \cup { GenerateToken(Obj(<<<<"userId", Str("admin-001")>>>>), 0, t - TIMEOUT) :
           t \in {1, 3} }
  \cup
  { Str(""), Str("0123456789abcdef"), Null, Num(7),
    Dotted(<<Btoa(<<>>), Btoa(<<Word("null")>>)>>),
    Dotted(<<Btoa(<<>>), NotBase64(Str("%%%")), Btoa(<<>>)>>),
    Dotted(<<Btoa(<<>>), Btoa(<<Word("null")>>), Btoa(<<>>)>>),
    Dotted(<<Btoa(<<>>), Btoa(<<Punct("{")>>), Btoa(<<>>)>>) }

VerifyEnd == 4

InitVerify ==
  /\ localStorage = NoStorage
  /\ quota = AmpleQuota
  /\ now = 1
  /\ sessionCheckInterval = 0
  /\ timers = {}
  /\ sinceTick = 0
  /\ listening = FALSE
  /\ location = "/index.html"
  /\ request = NoRequest
  /\ heap = NoHeap
  /\ handler = NoHandler
  /\ hist \in {[token |-> tk] : tk \in TokenSamples}
  /\ last = Quiet

\* AuthUtil.verifyToken(token) is called
VerifyOp ==
  /\ last' = [Quiet EXCEPT !.op = "verifyToken",
                !.success = VerifyToken(hist.token, now)]
  /\ UNCHANGED <<localStorage, quota, now, sessionCheckInterval, timers,
                 sinceTick, listening, location, request, handler, heap, hist>>

NextVerify ==
  \/ VerifyOp
  \/ Advance(1, VerifyEnd)

SpecVerify == InitVerify /\ [][NextVerify]_vars

----------------------------------------------------------------------------
(* Properties of logging in (Spec) and of verifyToken (SpecVerify)         *)

Authenticated == Truthy(IsAuthenticated(localStorage, now))

\* C1: after a login attempt with the configured admin credentials, through
\* login, loginLocalStorage or authenticateAdmin and from any prior state,
\* isAuthenticated() is true and getCurrentUser().role is 'admin'.
C1_AdminLogin ==
  (last.op = "login" /\ last.username = ConfigAdmin.USERNAME
                     /\ last.password = ConfigAdmin.PASSWORD) =>
    /\ Authenticated
    /\ Field(GetCurrentUser(localStorage, now), "role") = Str("admin")

\* C3: verifyToken returns false for every token that decodes to a payload
\* whose exp is earlier than the current time.
C3_ExpiredRejected ==
  (/\ last.op = "verifyToken"
   /\ T(Field(DecodeToken(hist.token), "exp")) = "number"
   /\ Field(DecodeToken(hist.token), "exp").number < now) => ~last.success

\* C4: in every reachable state isAuthenticated() is truthy only if the
\* stored token decodes to a payload whose exp exceeds the current time.
C4_AuthenticatedUnexpired ==
  Authenticated =>
    LET payload == DecodeToken(StorageGet(localStorage, AUTH_TOKEN, Null)) IN
    /\ T(Field(payload, "exp")) = "number"
    /\ Field(payload, "exp").number > now

----------------------------------------------------------------------------
(* Properties of the session (SpecSession)                                 *)

SessionKeysAbsent ==
  {AUTH_TOKEN, USER_DATA, ADMIN_SESSION} \cap DOMAIN localStorage = {}

\* C2: when the time since the session's lastActivity has reached TIMEOUT
\* while the user is logged in, the next run of the session checker removes
\* the token, the user data and the session record, and isAuthenticated() is
\* false.
C2_TimeoutClears ==
  (last.op = "tick" /\ last.due) => (SessionKeysAbsent /\ ~Authenticated)

\* C7: logout(), from any state, leaves the token, user data, session record
\* and remember-me keys absent, isAuthenticated() false and no session
\* checker interval scheduled.
C7_LogoutClears ==
  last.op = "logout" =>
    /\ SessionKeysAbsent
    /\ REMEMBER_ME \notin DOMAIN localStorage
    /\ ~Authenticated
    /\ timers = {}
    /\ StateClass(localStorage, now) = "LoggedOut"

\* a logout of a session that had been warned and was remembered
C7_Witness ==
  /\ last.op = "logout" /\ last.prior = "Warned"
  /\ hist.warned = 1

\* C8: while the user stays authenticated, the warning is shown by the first
\* checker tick at which the inactivity has reached TIMEOUT - WARNING_TIME,
\* and at most once until an activity event or a login resets warningShown:
\* a tick that measured that much inactivity leaves the warning shown, and it
\* is never shown a second time in the period.
C8_WarnOnce ==
  /\ hist.warned <= 1
  /\ (last.op = "tick" /\ last.ran
                       /\ last.inactive >= TIMEOUT - WARNING_TIME) =>
       hist.warned = 1

\* a later tick of the same period of inactivity kept quiet
C8_Witness ==
  /\ last.op = "tick" /\ last.ran /\ ~last.warned
  /\ last.inactive >= TIMEOUT - WARNING_TIME
  /\ hist.warned = 1

\* C9: as long as logout() is not called and every gap between consecutive
\* tracked activity events, and between the login and the first of them, is
\* shorter than TIMEOUT, isAuthenticated() stays true.
C9_ActiveStaysIn ==
  (hist.active /\ hist.gapsOk /\ now - hist.lastEvent < TIMEOUT) =>
    Authenticated

\* C10: after a checker tick that showed the warning and had it confirmed,
\* the stored session's lastActivity is the time of the confirmation.
C10_ConfirmResets ==
  (last.op = "tick" /\ last.warned /\ last.answer /\ ~last.out) =>
    Inactivity(localStorage, now) = 0

----------------------------------------------------------------------------
(* Logging in when the storage is nearly full: the origin has between no   *)
(* room and MaxRoom left, or ample room.                                   *)

MaxRoom == 2

StaffByName == <<"moti.elias", "staff123">>
AdminByEmail == <<"admin@dbconstruction.com", "admin12345">>
Inactive == <<"demo.client", "demo123">>
\* the default admin credentials the README gives for development
Documented == <<"Dale melaku", "password@12345">>

FullAttempts ==
  { <<"loginLocalStorage", who, rememberMe, ApiAbsent>> :
      who \in {Admin, Staff, StaffByName, AdminByEmail},
      rememberMe \in BOOLEAN }
  \cup
  { <<"loginLocalStorage", Inactive, FALSE, ApiAbsent>>,
    <<"loginLocalStorage", Wrong, FALSE, ApiAbsent>>,
    <<"authenticateAdmin", Admin, FALSE, ApiAbsent>>,
    <<"login", Documented, FALSE, ApiThrows>>,
    <<"loginLocalStorage", Documented, FALSE, ApiAbsent>>,
    <<"authenticateAdmin", Documented, FALSE, ApiAbsent>> }

InitFull ==
  /\ now = 1
  /\ localStorage = InitDemoUsers(NoStorage, AmpleQuota, 1)
  /\ quota \in {Used(localStorage) + room : room \in 0..MaxRoom}
               \cup {AmpleQuota}
  /\ sessionCheckInterval = 0
  /\ timers = {}
  /\ sinceTick = 0
  /\ listening = FALSE
  /\ location = "/admin/login.html"
  /\ request = NoRequest
  /\ heap = NoHeap
  /\ handler = NoHandler
  /\ hist = NoHistory
  /\ last = Quiet

NextFull ==
  \/ \E a \in FullAttempts : Login(a[1], a[2][1], a[2][2], a[3], a[4])
  \/ LogoutOp
  \/ PageLoad("/admin/login.html")

SpecFull == InitFull /\ [][NextFull]_vars

\* the stored token's payload, the stored user data and session record
StoredPayload == DecodeToken(StorageGet(localStorage, AUTH_TOKEN, Null))
StoredUser == StorageGet(localStorage, USER_DATA, Null)
StoredSession == StorageGet(localStorage, ADMIN_SESSION, Null)

\* C11: after a successful local login (loginLocalStorage or
\* authenticateAdmin) the storage holds the user data of the user who logged
\* in, a token whose payload carries that user's id and role, and a session
\* record with startTime = lastActivity = now and warningShown = false; the
\* activity listeners are registered and the checker's interval is scheduled.
C11_LoginCreates ==
  (last.op = "login" /\ last.success
     /\ last.entry \in {"loginLocalStorage", "authenticateAdmin"}) =>
    /\ T(StoredUser) = "object"
    /\ Str(last.username) \in {Field(StoredUser, "username"),
                                Field(StoredUser, "email")}
    /\ T(StoredPayload) = "object"
    /\ Field(StoredPayload, "userId") = Field(StoredUser, "id")
    /\ Field(StoredPayload, "role") = Field(StoredUser, "role")
    /\ StoredSession = NewSession(now)
    /\ listening
    /\ sessionCheckInterval # 0 /\ sessionCheckInterval \in timers

\* the same, where the storage has ample room
C11_LoginCreatesWithRoom ==
  quota = AmpleQuota => C11_LoginCreates

\* C17: a login with the credentials the README documents, through any of
\* the login operations and with room in the storage, succeeds and leaves an
\* authenticated session of an admin.
C17_DocumentedAdmin ==
  (/\ last.op = "login" /\ quota = AmpleQuota
   /\ last.username = Documented[1] /\ last.password = Documented[2]) =>
    /\ last.success
    /\ Authenticated
    /\ Truthy(IsAdmin(localStorage, now))

----------------------------------------------------------------------------
(* ValidationUtil. The strings it is given are Text values: it trims,      *)
(* measures and matches them character by character.                       *)

Lower == {"a", "b", "c", "d", "e", "f", "g", "h", "i", "j", "k", "l", "m",
          "n", "o", "p", "q", "r", "s", "t", "u", "v", "w", "x", "y", "z"}
Upper == {"A", "B", "C", "D", "E", "F", "G", "H", "I", "J", "K", "L", "M",
          "N", "O", "P", "Q", "R", "S", "T", "U", "V", "W", "X", "Y", "Z"}
Digits == <<"0", "1", "2", "3", "4", "5", "6", "7", "8", "9">>
Digit == {Digits[i] : i \in 1..Len(Digits)}
\* [a-zA-Z0-9]
AlphaNum == Lower \cup Upper \cup Digit
\* the class of the local part: letters, digits and punctuation ("grave"
\* stands for the grave accent, which a string of this module cannot hold)
LocalChars ==
  AlphaNum \cup {".", "!", "#", "$", "%", "&", "'", "*", "+", "/", "=", "?",
                 "^", "_", "grave", "{", "|", "}", "~", "-"}
\* the white space String.prototype.trim and \s know (of the characters
\* the model writes)
WhiteSpace == {" ", "\t", "\n"}

RECURSIVE TrimStart(_)
TrimStart(cs) ==
  IF cs # <<>> /\ Head(cs) \in WhiteSpace THEN TrimStart(Tail(cs)) ELSE cs

RECURSIVE TrimEnd(_)
TrimEnd(cs) ==
  IF cs # <<>> /\ cs[Len(cs)] \in WhiteSpace
  THEN TrimEnd(SubSeq(cs, 1, Len(cs) - 1)) ELSE cs

\* s.trim()
Trim(cs) == TrimEnd(TrimStart(cs))

RECURSIVE SplitOn(_, _, _)
\* cs.split(c), the piece under way being cur
SplitOn(cs, c, cur) ==
  IF cs = <<>> THEN <<cur>>
  ELSE IF Head(cs) = c THEN <<cur>> \o SplitOn(Tail(cs), c, <<>>)
  ELSE SplitOn(Tail(cs), c, Append(cur, Head(cs)))

\* [a-zA-Z0-9](?:[a-zA-Z0-9-]{0,61}[a-zA-Z0-9])? matches all of cs
MatchLabel(cs) ==
  /\ Len(cs) >= 1 /\ Len(cs) <= 61 + 2
  /\ cs[1] \in AlphaNum /\ cs[Len(cs)] \in AlphaNum
  /\ \A i \in 1..Len(cs) : cs[i] \in AlphaNum \cup {"-"}

\* label(?:\.label)* matches all of cs
MatchDomain(cs) ==
  Let(SplitOn(cs, ".", <<>>), LAMBDA labels :
    \A i \in 1..Len(labels) : MatchLabel(labels[i]))

\* emailRegex.test(cs): ^local+@domain$, where neither the class of the
\* local part nor the domain admits a second "@"
EmailRegexTest(cs) ==
  \E k \in 1..Len(cs) :
    /\ cs[k] = "@"
    /\ k > 1
    /\ \A i \in 1..(k - 1) : cs[i] \in LocalChars
    /\ MatchDomain(SubSeq(cs, k + 1, Len(cs)))

\* validateEmail without the trim
ValidateEmailUntrimmed(email) ==
  IF ~Truthy(email) \/ T(email) # "text" THEN FALSE
  ELSE EmailRegexTest(email.text)

\* validateEmail(email)
ValidateEmail(email) ==
  IF ~Truthy(email) \/ T(email) # "text" THEN FALSE
  ELSE EmailRegexTest(Trim(email.text))

\* /^(\+251|0)[79]\d{8}$/.test(cs)
PhoneRegexTest(cs) ==
  \E prefix \in {<<"+", "2", "5", "1">>, <<"0">>} :
    /\ Len(cs) = Len(prefix) + 1 + 8
    /\ SubSeq(cs, 1, Len(prefix)) = prefix
    /\ cs[Len(prefix) + 1] \in {"7", "9"}
    /\ \A i \in (Len(prefix) + 2)..Len(cs) : cs[i] \in Digit

\* validatePhone(phone)
ValidatePhone(phone) ==
  IF ~Truthy(phone) \/ T(phone) # "text" THEN FALSE
  ELSE PhoneRegexTest(SelectSeq(phone.text,
                                LAMBDA c : c \notin WhiteSpace \cup {"-"}))

\* required(value)
Required(value) ==
  CASE T(value) \in {"null", "undefined"} -> FALSE
    [] T(value) = "text" -> Len(Trim(value.text)) > 0
    [] T(value) = "array" -> Len(value.array) > 0
    [] OTHER -> TRUE

RECURSIVE Decimal(_)
\* the number a sequence of digits writes
Decimal(ds) ==
  IF ds = <<>> THEN 0
  ELSE 10 * Decimal(SubSeq(ds, 1, Len(ds) - 1))
       + (CHOOSE n \in 0..9 : Digits[n + 1] = ds[Len(ds)])

\* Number(cs) of a string: the empty string is 0, digits with an optional
\* sign are their number, and the other strings of the model are NaN
StringToNumber(cs) ==
  IF cs = <<>> THEN Num(0)
  ELSE IF \A i \in 1..Len(cs) : cs[i] \in Digit THEN Num(Decimal(cs))
  ELSE IF Len(cs) > 1 /\ Head(cs) \in {"-", "+"}
          /\ \A i \in 2..Len(cs) : cs[i] \in Digit
       THEN Num((IF Head(cs) = "-" THEN -1 ELSE 1) * Decimal(Tail(cs)))
  ELSE NaN

RECURSIVE ToNumber(_)
\* Number(value)
ToNumber(value) ==
  CASE T(value) = "number" -> value
    [] T(value) = "null" -> Num(0)
    [] T(value) = "boolean" -> Num(IF value.boolean THEN 1 ELSE 0)
    [] T(value) = "text" -> StringToNumber(Trim(value.text))
    [] T(value) = "array" ->
         (IF Len(value.array) = 0 THEN Num(0)
          ELSE IF Len(value.array) > 1 THEN NaN
          ELSE IF T(value.array[1]) \in {"null", "undefined"} THEN Num(0)
          ELSE IF T(value.array[1]) \in {"number", "text", "array"}
               THEN ToNumber(value.array[1])
          ELSE NaN)
    [] OTHER -> NaN

\* a >= b for a number a and any value b
AtLeast(a, b) ==
  Let(ToNumber(b), LAMBDA n : T(n) = "number" /\ a >= n.number)

\* a <= b for a number a and any value b
AtMost(a, b) ==
  Let(ToNumber(b), LAMBDA n : T(n) = "number" /\ a <= n.number)

\* minLength(value, min)
MinLength(value, min) ==
  IF ~Truthy(value) \/ T(value) # "text" THEN FALSE
  ELSE AtLeast(Len(Trim(value.text)), min)

\* maxLength(value, max)
MaxLength(value, max) ==
  IF ~Truthy(value) \/ T(value) # "text" THEN TRUE
  ELSE AtMost(Len(Trim(value.text)), max)

\* numberRange(value, min, max)
NumberRange(value, min, max) ==
  Let(ToNumber(value), LAMBDA num :
    IF T(num) = "nan" THEN FALSE
    ELSE AtLeast(num.number, min) /\ AtMost(num.number, max))

\* positiveNumber(value)
PositiveNumber(value) ==
  Let(ToNumber(value), LAMBDA num : T(num) = "number" /\ num.number > 0)

\* a message of getErrorMessage: which of its templates, and the values the
\* template interpolates
Message(template, parts) == [message |-> <<template, parts>>]

\* getErrorMessage(field, rule, params = {}); it throws a TypeError when
\* params is null
GetErrorMessage(field, rule, params) ==
  Let(IF T(params) = "undefined" THEN Obj(<<>>) ELSE params, LAMBDA ps :
    IF T(ps) = "null" THEN [threw |-> TRUE, message |-> Undefined]
    ELSE [threw |-> FALSE,
          message |->
            CASE rule \in {"required", "positiveNumber"} ->
                   Message(rule, <<Str(field)>>)
              [] rule \in {"email", "phone", "url"} -> Message(rule, <<>>)
              [] rule = "minLength" ->
                   Message(rule, <<Str(field), Field(ps, "min")>>)
              [] rule = "maxLength" ->
                   Message(rule, <<Str(field), Field(ps, "max")>>)
              [] rule = "numberRange" ->
                   Message(rule, <<Str(field), Field(ps, "min"),
                                   Field(ps, "max")>>)
              [] rule = "fileType" -> Message(rule, <<Field(ps, "types")>>)
              [] rule = "fileSize" -> Message(rule, <<Field(ps, "maxSize")>>)
              [] OTHER -> Message("invalid", <<Str(field)>>)])

\* rule.type, "" when it is no string
RuleType(rule) ==
  IF T(Field(rule, "type")) = "string" THEN Field(rule, "type").string ELSE ""

\* the switch of validateForm on one rule: whether reading params.min or
\* params.max threw a TypeError, and else what became of valid
RuleCheck(rule, value) ==
  Let(RuleType(rule), LAMBDA type :
    Let(Field(rule, "params"), LAMBDA params :
      IF type \in {"minLength", "maxLength", "numberRange"}
         /\ T(params) \in {"undefined", "null"}
      THEN [threw |-> TRUE, valid |-> FALSE]
      ELSE [threw |-> FALSE,
            valid |->
              CASE type = "required" -> Required(value)
                [] type = "email" -> ValidateEmail(value)
                [] type = "phone" -> ValidatePhone(value)
                [] type = "minLength" -> MinLength(value, Field(params, "min"))
                [] type = "maxLength" -> MaxLength(value, Field(params, "max"))
                [] type = "numberRange" ->
                     NumberRange(value, Field(params, "min"),
                                 Field(params, "max"))
                [] type = "positiveNumber" -> PositiveNumber(value)
                [] OTHER -> TRUE]))

\* message || this.getErrorMessage(field, type, params)
RuleMessage(field, rule) ==
  IF Truthy(Field(rule, "message"))
  THEN [threw |-> FALSE, message |-> Field(rule, "message")]
  ELSE GetErrorMessage(field, RuleType(rule), Field(rule, "params"))

NoFailure == [threw |-> FALSE, failed |-> FALSE, message |-> Undefined]
Thrown == [threw |-> TRUE, failed |-> FALSE, message |-> Undefined]

RECURSIVE CheckRulesNoBreak(_, _, _, _)
\* the loop over the rules of a field without its break: the message of the
\* last failing rule stays
CheckRulesNoBreak(field, value, fieldRules, i) ==
  IF i > Len(fieldRules) THEN NoFailure
  ELSE Let(RuleCheck(fieldRules[i], value), LAMBDA c :
         IF c.threw THEN Thrown
         ELSE Let(CheckRulesNoBreak(field, value, fieldRules, i + 1),
                  LAMBDA later :
                IF c.valid \/ later.threw \/ later.failed THEN later
                ELSE Let(RuleMessage(field, fieldRules[i]), LAMBDA m :
                       IF m.threw THEN Thrown
                       ELSE [threw |-> FALSE, failed |-> TRUE,
                             message |-> m.message])))

RECURSIVE CheckRules(_, _, _, _)
\* for (const rule of fieldRules), from the i-th rule on: it ends at the
\* first rule that fails, with that rule's message
CheckRules(field, value, fieldRules, i) ==
  IF i > Len(fieldRules) THEN NoFailure
  ELSE Let(RuleCheck(fieldRules[i], value), LAMBDA c :
         IF c.threw THEN Thrown
         ELSE IF c.valid THEN CheckRules(field, value, fieldRules, i + 1)
         ELSE Let(RuleMessage(field, fieldRules[i]), LAMBDA m :
                IF m.threw THEN Thrown
                ELSE [threw |-> FALSE, failed |-> TRUE,
                      message |-> m.message]))

FormThrew == [threw |-> TRUE, isValid |-> FALSE, errors |-> Obj(<<>>)]

RECURSIVE ValidateFields(_, _, _, _, _)
\* for (const field in rules), from the k-th field on, with the errors and
\* isValid gathered so far
ValidateFields(data, rules, k, errors, isValid) ==
  IF k > Len(rules) THEN [threw |-> FALSE, isValid |-> isValid,
                          errors |-> errors]
  ELSE IF T(data) \in {"null", "undefined"} \/ T(rules[k][2]) # "array"
       THEN FormThrew
  ELSE Let(CheckRules(rules[k][1], Field(data, rules[k][1]),
                      rules[k][2].array, 1), LAMBDA r :
         IF r.threw THEN FormThrew
         ELSE IF r.failed
              THEN ValidateFields(data, rules, k + 1,
                                  SetField(errors, rules[k][1], r.message),
                                  FALSE)
         ELSE ValidateFields(data, rules, k + 1, errors, isValid))

\* validateForm(data, rules): { isValid, errors }, or a TypeError thrown
ValidateForm(data, rules) ==
  ValidateFields(data, rules.object, 1, Obj(<<>>), TRUE)

----------------------------------------------------------------------------
(* validateForm on its own: form data and rule sets drawn from samples.    *)

UserAtExample == Text(<<"u", "s", "e", "r", "@", "e", "x", "a", "m", "p",
    "l", "e", ".", "c", "o", "m">>)
FooAt == Text(<<"f", "o", "o", "@">>)
AtBarCom == Text(<<"@", "b", "a", "r", ".", "c", "o", "m">>)
PaddedEmail == Text(<<" ", "u", "s", "e", "r", "@", "e", "x", "a", "m", "p",
    "l", "e", ".", "c", "o", "m", " ">>)
Abebe == Text(<<"A", "b", "e", "b", "e">>)
PaddedName == Text(<<" ", "A", "b", "e", "b", "e", " ", "K", "e", "b", "e",
    "d", "e", " ">>)
Al == Text(<<"A", "l">>)
Blank == Text(<<" ", " ">>)
Phone251 == Text(<<"+", "2", "5", "1", "9", "1", "1", "5", "9", "0", "0",
    "1", "2">>)
PhoneSpaced == Text(<<"+", "2", "5", "1", " ", "9", "1", "1", " ", "5", "9",
    "0", " ", "0", "1", "2">>)
PhoneDashed == Text(<<"0", "9", "1", "1", "-", "5", "9", "0", "-", "0", "1",
    "2">>)
PhoneShort == Text(<<"0", "9", "1", "1">>)
Twelve == Text(<<"1", "2">>)
MinusThree == Text(<<"-", "3">>)
Abc == Text(<<"a", "b", "c">>)
Empty == Text(<<>>)

Rule(type) == Obj(<<<<"type", Str(type)>>>>)
RuleMsg(type, message) ==
  Obj(<<<<"type", Str(type)>>, <<"message", Str(message)>>>>)
RuleParams(type, params) ==
  Obj(<<<<"type", Str(type)>>, <<"params", Obj(params)>>>>)
RuleParamsMsg(type, params, message) ==
  Obj(<<<<"type", Str(type)>>, <<"params", Obj(params)>>,
        <<"message", Str(message)>>>>)

FormDatas ==
  { Obj(<< <<"email", UserAtExample>>, <<"name", Abebe>>,
           <<"phone", Phone251>>, <<"budget", Num(5)>> >>),
    Obj(<< <<"email", FooAt>>, <<"name", Al>>, <<"phone", PhoneShort>>,
           <<"budget", MinusThree>> >>),
    Obj(<< <<"email", Empty>>, <<"name", Blank>>, <<"phone", Null>>,
           <<"budget", Abc>> >>),
    Obj(<<>>),
    Obj(<< <<"email", Num(7)>>, <<"name", Arr(<<>>)>>,
           <<"phone", PhoneDashed>>, <<"budget", Null>> >>),
    Obj(<< <<"email", PaddedEmail>>, <<"name", PaddedName>>,
           <<"phone", PhoneSpaced>>, <<"budget", Twelve>> >>),
    Obj(<< <<"name", Abebe>>, <<"email", AtBarCom>> >>) }

RuleSets ==
  { \* the rules of the README
    Obj(<< <<"email", Arr(<<RuleMsg("required", "Email is required"),
                            RuleMsg("email", "Invalid email format")>>)>>,
           <<"name", Arr(<<Rule("required"),
                           RuleParams("minLength", <<<<"min", Num(3)>>>>)>>)>> >>),
    \* the same rules, each field's in the other order
    Obj(<< <<"email", Arr(<<RuleMsg("email", "Invalid email format"),
                            RuleMsg("required", "Email is required")>>)>>,
           <<"name", Arr(<<RuleParams("minLength", <<<<"min", Num(3)>>>>),
                           Rule("required")>>)>> >>),
    Obj(<< <<"name", Arr(<<Rule("required"),
                           RuleParamsMsg("minLength", <<<<"min", Num(3)>>>>,
                                         "Too short"),
                           RuleParams("maxLength", <<<<"max", Num(4)>>>>)>>)>>,
           <<"phone", Arr(<<Rule("phone")>>)>>,
           <<"budget", Arr(<<Rule("required"),
                             RuleParams("numberRange",
                                        <<<<"min", Num(1)>>, <<"max", Num(10)>>>>),
                             Rule("positiveNumber")>>)>> >>),
    Obj(<< <<"budget", Arr(<<RuleMsg("positiveNumber", ""),
                             RuleParams("numberRange",
                                        <<<<"min", Num(0)>>, <<"max", Num(10)>>>>)>>)>>,
           <<"email", Arr(<<Rule("bogus"), Rule("email")>>)>> >>),
    Obj(<<>>),
    Obj(<< <<"name", Arr(<<>>)>>,
           <<"email", Arr(<<Rule("required")>>)>>,
           <<"phone", Arr(<<Rule("required"),
                            RuleMsg("phone", "Bad phone")>>)>> >>),
    \* a rule that reads params without having any
    Obj(<< <<"email", Arr(<<Rule("required")>>)>>,
           <<"name", Arr(<<Rule("minLength")>>)>> >>),
    Obj(<< <<"name", Arr(<<RuleParams("maxLength", <<<<"max", Num(2)>>>>),
                           RuleParams("minLength", <<<<"min", Num(10)>>>>),
                           Rule("required")>>)>>,
           <<"email", Arr(<<Rule("email"),
                            RuleMsg("email", "Invalid email format")>>)>> >>) }

InitForm ==
  /\ localStorage = NoStorage
  /\ quota = AmpleQuota
  /\ now = 1
  /\ sessionCheckInterval = 0
  /\ timers = {}
  /\ sinceTick = 0
  /\ listening = FALSE
  /\ location = "/index.html"
  /\ request = NoRequest
  /\ heap = NoHeap
  /\ handler = NoHandler
  /\ hist \in {[data |-> d, rules |-> r] : d \in FormDatas, r \in RuleSets}
  /\ last = [op |-> "init"]

\* ValidationUtil.validateForm(data, rules) is called
ValidateFormOp ==
  /\ last' = [op |-> "validateForm",
              res |-> ValidateForm(hist.data, hist.rules)]
  /\ UNCHANGED <<localStorage, quota, now, sessionCheckInterval, timers,
                 sinceTick, listening, location, request, handler, heap, hist>>

NextForm == ValidateFormOp

SpecForm == InitForm /\ [][NextForm]_vars

\* the rules of fieldRules that the value fails
FailingRules(value, fieldRules) ==
  {i \in 1..Len(fieldRules) : ~RuleCheck(fieldRules[i], value).valid}

FirstOf(indices) == CHOOSE i \in indices : \A j \in indices : i <= j

\* C12: in the result of validateForm(data, rules), errors holds for every
\* field with a failing rule the message of the first of its rules that
\* fails, in declared order, whatever the fields before it did; it holds no
\* entry for a field whose rules all pass nor for any other name; and
\* isValid is true exactly when errors is empty.
C12_FirstFailure ==
  (last.op = "validateForm" /\ ~last.res.threw) =>
    LET rules == hist.rules.object
        errors == last.res.errors
    IN /\ \A k \in 1..Len(rules) :
            LET field == rules[k][1]
                fieldRules == rules[k][2].array
                failing == FailingRules(Field(hist.data, field), fieldRules)
            IN IF failing = {} THEN ~HasField(errors, field)
               ELSE /\ Cardinality({j \in 1..Len(errors.object) :
                                      errors.object[j][1] = field}) = 1
                    /\ Field(errors, field)
                         = RuleMessage(field, fieldRules[FirstOf(failing)]).message
       /\ \A j \in 1..Len(errors.object) :
            \E k \in 1..Len(rules) : rules[k][1] = errors.object[j][1]
       /\ last.res.isValid <=> errors = Obj(<<>>)

\* a form of which one field fails two rules with different messages, a
\* later field fails too, and another field passes all its rules
C12_Witness ==
  /\ last.op = "validateForm" /\ ~last.res.threw
  /\ LET rules == hist.rules.object
         Failing(k) == FailingRules(Field(hist.data, rules[k][1]),
                                    rules[k][2].array)
     IN /\ \E k \in 1..Len(rules) :
             /\ \E i, j \in Failing(k) :
                  RuleMessage(rules[k][1], rules[k][2].array[i])
                    # RuleMessage(rules[k][1], rules[k][2].array[j])
             /\ \E k2 \in (k + 1)..Len(rules) : Failing(k2) # {}
        /\ \E k \in 1..Len(rules) :
             rules[k][2].array # <<>> /\ Failing(k) = {}

----------------------------------------------------------------------------
(* APIService.request (js/utils/api.js). A call is followed from its start *)
(* to the value it returns or the error it throws; its time is counted in  *)
(* seconds.                                                                *)

\* API_CONFIG.timeout
ApiTimeout == 10

\* a response: its status and the text of its body
Response(status, body) == [status |-> status, body |-> body]
NoResponse == [status |-> 0, body |-> <<>>]

\* response.ok
ResponseOk(response) == response.status >= 200 /\ response.status <= 299

\* how a call ends
Returned(data) == [kind |-> "returned", name |-> "", value |-> data]
\* an error: its name and its message
Threw(name, message) == [kind |-> "threw", name |-> name, value |-> message]
Pending == [kind |-> "pending", name |-> "", value |-> Undefined]

\* `HTTP error! status: ${response.status}`
HttpError(status) == Message("HTTP error! status", <<Num(status)>>)

\* catch (error): an AbortError becomes Error('Request timeout'), any other
\* error is thrown again as it is
Catch(error) ==
  IF error.name = "AbortError" THEN Threw("Error", Str("Request timeout"))
  ELSE error

\* the call once fetch has resolved and the body has arrived: response.json(),
\* the test of response.ok, and the catch
Settle(response) ==
  Let(JSONParse(response.body), LAMBDA p :
    IF ~p.ok
    THEN Catch(Threw("SyntaxError", Str("Unexpected token")))
    ELSE IF ~ResponseOk(response)
         THEN IF T(p.val) = "null"
              THEN Catch(Threw("TypeError",
                               Str("Cannot read properties of null")))
              ELSE Catch(Threw("Error",
                               IF Truthy(Field(p.val, "error"))
                               THEN Field(p.val, "error")
                               ELSE HttpError(response.status)))
    ELSE Returned(p.val))

\* the call when the timer's controller.abort() makes fetch reject
Aborted == Catch(Threw("AbortError", Str("The user aborted a request.")))

\* the call when fetch, or the reading of the body, fails on the network
NetworkFailed == Catch(Threw("TypeError", Str("Failed to fetch")))

\* request: phase - "fetch" (await fetch), "body" (await response.json()) or
\* "settled"; elapsed - seconds since the call; timer - the timeout set at
\* the start is still to fire; aborted - it fired and aborted the fetch
NewRequest ==
  [phase |-> "fetch", elapsed |-> 0, timer |-> TRUE, aborted |-> FALSE,
   response |-> NoResponse, outcome |-> Pending]

RequestSlack == 2
RequestEnd == ApiTimeout + RequestSlack

Statuses == {200, 404, 500}

\* bodies: JSON with and without an error text, JSON null, and an HTML page
Bodies ==
  { JSONStringify(Obj(<< <<"success", Bool(TRUE)>>,
                         <<"data", Arr(<<Num(1)>>)>> >>)).text,
    JSONStringify(Obj(<< <<"success", Bool(FALSE)>>,
                         <<"error", Str("Invalid credentials")>> >>)).text,
    JSONStringify(Obj(<< <<"error", Str("")>> >>)).text,
    JSONStringify(Null).text,
    <<Word("<html>")>> }

InitRequest ==
  /\ localStorage = NoStorage
  /\ quota = AmpleQuota
  /\ now = 1
  /\ sessionCheckInterval = 0
  /\ timers = {}
  /\ sinceTick = 0
  /\ listening = FALSE
  /\ location = "/index.html"
  /\ request = NoRequest
  /\ heap = NoHeap
  /\ handler = NoHandler
  /\ hist = [none |-> TRUE]
  /\ last = [op |-> "init"]

RequestIdle ==
  UNCHANGED <<localStorage, quota, now, sessionCheckInterval, timers,
              sinceTick, listening, location, handler, heap, hist>>

\* api.request(endpoint, options) is called: the timer is set, fetch starts
RequestStart ==
  /\ request.phase \in {"none", "settled"}
  /\ request' = NewRequest
  /\ last' = [op |-> "request"]
  /\ RequestIdle

\* fetch resolves with the response's status and headers: clearTimeout
FetchResolves(status, body) ==
  /\ request.phase = "fetch"
  /\ request' = [request EXCEPT !.phase = "body", !.timer = FALSE,
                                !.response = Response(status, body)]
  /\ last' = [op |-> "response"]
  /\ RequestIdle

\* fetch rejects: the server cannot be reached
FetchRejects ==
  /\ request.phase = "fetch"
  /\ request' = [request EXCEPT !.phase = "settled",
                                !.outcome = NetworkFailed]
  /\ last' = [op |-> "rejected"]
  /\ RequestIdle

\* the timeout set at the start fires: controller.abort()
TimerFires ==
  /\ request.phase # "none"
  /\ request.timer /\ request.elapsed >= ApiTimeout
  /\ request' = IF request.phase = "fetch"
                THEN [request EXCEPT !.phase = "settled", !.timer = FALSE,
                                     !.aborted = TRUE, !.outcome = Aborted]
                ELSE [request EXCEPT !.timer = FALSE]
  /\ last' = [op |-> "timer"]
  /\ RequestIdle

\* the body has arrived: response.json() settles and the call with it
BodyRead ==
  /\ request.phase = "body"
  /\ request' = [request EXCEPT !.phase = "settled",
                                !.outcome = Settle(request.response)]
  /\ last' = [op |-> "body"]
  /\ RequestIdle

\* the connection is lost while the body is read
BodyFails ==
  /\ request.phase = "body"
  /\ request' = [request EXCEPT !.phase = "settled",
                                !.outcome = NetworkFailed]
  /\ last' = [op |-> "lost"]
  /\ RequestIdle

\* a second passes; the timer fires when it is due
RequestWait ==
  /\ request.phase \in {"fetch", "body"} \/ (request.phase = "settled" /\ request.timer)
  /\ request.elapsed < RequestEnd
  /\ ~(request.timer /\ request.elapsed >= ApiTimeout)
  /\ request' = [request EXCEPT !.elapsed = @ + 1]
  /\ last' = [op |-> "wait"]
  /\ RequestIdle

NextRequest ==
  \/ RequestStart
  \/ \E status \in Statuses, body \in Bodies : FetchResolves(status, body)
  \/ FetchRejects
  \/ TimerFires
  \/ BodyRead
  \/ BodyFails
  \/ RequestWait

SpecRequest == InitRequest /\ [][NextRequest]_vars

RequestSettled == request.phase = "settled"
GotResponse == request.phase # "none" /\ request.response # NoResponse

\* the response's body was received whole
BodyArrived == GotResponse /\ request.outcome # NetworkFailed

\* C13: a settled call has thrown Error('Request timeout') exactly when its
\* timer fired and aborted the fetch; if it got a response with a non-ok
\* status, body included, it has thrown an Error whose message is the error
\* text of the response's body or 'HTTP error! status: N'; and it has
\* returned data only if the response was ok, the data being the parsed body.
C13_TimeoutDistinct ==
  RequestSettled =>
    /\ request.outcome = Threw("Error", Str("Request timeout"))
         <=> request.aborted
    /\ (BodyArrived /\ ~ResponseOk(request.response)) =>
         /\ request.outcome.kind = "threw"
         /\ request.outcome.name = "Error"
         /\ request.outcome.value
              \in {HttpError(request.response.status),
                   Field(JSONParse(request.response.body).val, "error")}
    /\ request.outcome.kind = "returned" =>
         /\ GotResponse /\ ResponseOk(request.response)
         /\ JSONParse(request.response.body).ok
         /\ request.outcome.value = JSONParse(request.response.body).val

\* C13 without the case of a body that is not a JSON text or is null
C13_TimeoutDistinctJson ==
  (/\ RequestSettled
   /\ GotResponse => /\ JSONParse(request.response.body).ok
                      /\ JSONParse(request.response.body).val # Null)
    => C13_TimeoutDistinct

\* C14: no call is still unsettled later than the timeout after its start.
C14_SettlesInTime ==
  request.phase \in {"fetch", "body"} => request.elapsed <= ApiTimeout

\* the same for the wait for the response alone
C14_FetchSettlesInTime ==
  request.phase = "fetch" => request.elapsed <= ApiTimeout

----------------------------------------------------------------------------
(* StorageUtil.set when the quota is reached: writes to a key that holds a *)
(* record stamped more than thirty days ago, and to another key.           *)

\* a value too large for the quota even in an empty storage
Large == Arr(<<Num(0), Num(1), Num(0), Num(1), Num(0), Num(1)>>)

EvictKeys == {"old", "k1"}

EvictValues ==
  {Num(1), Arr(<<Num(1), Null>>), Obj(<<<<"a", Num(0)>>>>), Large, Cyclic,
   Stamped(Num(1), StorageStart)}

NextEvict ==
  \/ \E key \in EvictKeys, value \in EvictValues : SetOp(key, value)
  \/ \E key \in EvictKeys, d \in Defaults : GetOp(key, d)
  \/ \E key \in EvictKeys : RemoveOp(key)

SpecEvict == InitStorage /\ [][NextEvict]_vars

\* set(key, value) did what its code says: no write and no eviction when the
\* value cannot be serialized; the write when it fits; else one eviction of
\* the stale records and one retry, whose success is what set returns
SetRetriesOnce(key, value, res) ==
  Let(JSONStringify(value), LAMBDA s :
    IF ~s.ok THEN ~res /\ localStorage' = localStorage
    ELSE IF Fits(localStorage, quota, key, s.text)
         THEN res /\ localStorage' = setItem(localStorage, key, s.text)
    ELSE Let(ClearOldData(localStorage, now), LAMBDA cleared :
           /\ res = Fits(cleared, quota, key, s.text)
           /\ localStorage' = IF res THEN setItem(cleared, key, s.text)
                              ELSE cleared))

\* the key holds after the step what it held before it
KeyKept(key) ==
  IF key \in DOMAIN localStorage
  THEN key \in DOMAIN localStorage' /\ localStorage'[key] = localStorage[key]
  ELSE key \notin DOMAIN localStorage'

\* C15: set returns a boolean; on a quota error it evicts the stale records
\* once and retries once, returning true iff the retry succeeds; on any other
\* failure it returns false without eviction or retry; and a set that
\* returned false leaves the previous value of its key in place.
C15_SetFailsSafe ==
  [][last'.op = "set" =>
       /\ last'.res \in BOOLEAN
       /\ SetRetriesOnce(last'.key, last'.value, last'.res)
       /\ ~last'.res => KeyKept(last'.key)
  ]_vars

\* C15 without its last part
C15_SetRetries ==
  [][last'.op = "set" =>
       /\ last'.res \in BOOLEAN
       /\ SetRetriesOnce(last'.key, last'.value, last'.res)
  ]_vars

----------------------------------------------------------------------------
(* validateEmail on its own: every string of up to MaxEmailLen characters  *)
(* of a small alphabet, longer samples, and values that are no strings.    *)

MaxEmailLen == 5

EmailAlphabet == {"a", "@", ".", "-", " "}

RECURSIVE StringsUpTo(_)
StringsUpTo(n) ==
  IF n = 0 THEN {<<>>}
  ELSE Let(StringsUpTo(n - 1), LAMBDA shorter :
         shorter \cup {Append(cs, c) : cs \in shorter, c \in EmailAlphabet})

\* a@ followed by a label of n letters
LabelOf(n) == Text(<<"a", "@">> \o [i \in 1..n |-> "b"])

EmailInputs ==
  {Text(cs) : cs \in StringsUpTo(MaxEmailLen)}
  \cup {UserAtExample, FooAt, AtBarCom, PaddedEmail, Abebe,
        LabelOf(61 + 2), LabelOf(61 + 3),
        Text(<<"\t", "a", "!", "#", "@", "A", "-", "9", ".", "z", "\n">>),
        Text(<<"a", "@", "b", "@", "c">>),
        Text(<<"a", " ", "b", "@", "c">>)}
  \cup {Null, Undefined, Num(0), Num(7), Bool(TRUE), Arr(<<UserAtExample>>),
        Obj(<<<<"email", UserAtExample>>>>)}

InitEmail ==
  /\ localStorage = NoStorage
  /\ quota = AmpleQuota
  /\ now = 1
  /\ sessionCheckInterval = 0
  /\ timers = {}
  /\ sinceTick = 0
  /\ listening = FALSE
  /\ location = "/index.html"
  /\ request = NoRequest
  /\ heap = NoHeap
  /\ handler = NoHandler
  /\ hist \in {[email |-> e] : e \in EmailInputs}
  /\ last = [op |-> "init"]

\* ValidationUtil.validateEmail(email) is called
ValidateEmailOp ==
  /\ last' = [op |-> "validateEmail", res |-> ValidateEmail(hist.email)]
  /\ UNCHANGED <<localStorage, quota, now, sessionCheckInterval, timers,
                 sinceTick, listening, location, request, handler, heap, hist>>

NextEmail == ValidateEmailOp

SpecEmail == InitEmail /\ [][NextEmail]_vars

\* C16 as stated: validateEmail returns false for every string that does not
\* match the pattern local-part@domain and for every value that is no
\* string, and true for "user@example.com".
C16_EmailPattern ==
  last.op = "validateEmail" =>
    /\ T(hist.email) # "text" => ~last.res
    /\ (T(hist.email) = "text" /\ ~EmailRegexTest(hist.email.text))
         => ~last.res
    /\ hist.email = UserAtExample => last.res

\* C16, amended: validateEmail returns false for every value that is no
\* string and for every string that, with the white space at its ends
\* removed, does not match the pattern local-part@domain; it returns true for
\* every string that then matches, "user@example.com" among them.
C16_EmailPatternTrimmed ==
  last.op = "validateEmail" =>
    /\ T(hist.email) # "text" => ~last.res
    /\ T(hist.email) = "text" =>
         (last.res <=> EmailRegexTest(Trim(hist.email.text)))
    /\ hist.email = UserAtExample => last.res

\* an address with white space around it was accepted
C16_Witness ==
  /\ last.op = "validateEmail" /\ last.res
  /\ T(hist.email) = "text"
  /\ ~EmailRegexTest(hist.email.text)

----------------------------------------------------------------------------
(* Two tabs of the site on one localStorage. The handlers of this page run *)
(* one storage access at a time; the other tab, where the user logs out,   *)
(* may run between any two of them, and while confirm() is open.           *)

\* handler: pc - "update" (the listener found the user authenticated and
\* calls updateActivity), "write" (updateActivity read the session record
\* and is about to store it), "tick" (the checker found the user
\* authenticated), "confirm" (the checker read the session record and
\* showSessionWarning's dialog is open); session - the record read;
\* inactive - the inactiveTime computed from it
Handling(pc, session, inactive) ==
  [pc |-> pc, session |-> session, inactive |-> inactive]

Idle == handler = NoHandler

\* session.lastActivity = Date.now(); session.warningShown = false
Touched(session, t) ==
  SetField(SetField(session, "lastActivity", Num(t)),
           "warningShown", Bool(FALSE))

TabsIdle == UNCHANGED <<quota, now, request, heap>>

\* an activity event reaches the listener: if (this.isAuthenticated())
ActivityBegin ==
  /\ Idle /\ listening
  /\ handler' = IF Truthy(IsAuthenticated(localStorage, now))
                THEN Handling("update", Null, 0) ELSE NoHandler
  /\ last' = [Quiet EXCEPT !.op = "activity",
                !.success = Truthy(IsAuthenticated(localStorage, now))]
  /\ UNCHANGED <<localStorage, sessionCheckInterval, timers, sinceTick,
                 listening, location, hist>>
  /\ TabsIdle

\* updateActivity reads the session record
ActivityRead ==
  /\ handler.pc = "update"
  /\ Let(StorageGet(localStorage, ADMIN_SESSION, Null), LAMBDA session :
       handler' = IF Truthy(session)
                  THEN Handling("write", Touched(session, now), 0)
                  ELSE NoHandler)
  /\ last' = [Quiet EXCEPT !.op = "read"]
  /\ UNCHANGED <<localStorage, sessionCheckInterval, timers, sinceTick,
                 listening, location, hist>>
  /\ TabsIdle

\* updateActivity stores the record it read, with the new lastActivity
ActivityWrite ==
  /\ handler.pc = "write"
  /\ localStorage' = StorageSet(localStorage, quota, now, ADMIN_SESSION,
                                handler.session).ls
  /\ handler' = NoHandler
  /\ last' = [Quiet EXCEPT !.op = "write"]
  /\ UNCHANGED <<sessionCheckInterval, timers, sinceTick, listening,
                 location, hist>>
  /\ TabsIdle

\* the checker's interval fires: if (!this.isAuthenticated())
TickBegin ==
  /\ Idle
  /\ timers # {} /\ sinceTick >= CheckInterval
  /\ IF Truthy(IsAuthenticated(localStorage, now))
     THEN /\ handler' = Handling("tick", Null, 0)
          /\ timers' = timers
     ELSE /\ handler' = NoHandler
          /\ timers' = timers \ {sessionCheckInterval}
  /\ sinceTick' = 0
  /\ last' = [Quiet EXCEPT !.op = "tick"]
  /\ UNCHANGED <<localStorage, sessionCheckInterval, listening, location,
                 hist>>
  /\ TabsIdle

\* the checker reads the session record and computes inactiveTime: it opens
\* the warning, or goes on to the test of the timeout
TickRead ==
  /\ handler.pc = "tick"
  /\ Let(StorageGet(localStorage, ADMIN_SESSION, Null), LAMBDA session :
       IF ~Truthy(session)
       THEN /\ handler' = NoHandler
            /\ UNCHANGED <<localStorage, sessionCheckInterval, timers,
                           sinceTick, listening, location, hist>>
       ELSE Let(now - Field(session, "lastActivity").number,
                LAMBDA inactiveTime :
              IF ShouldWarn(session, inactiveTime)
              THEN /\ handler' = Handling("confirm", session, inactiveTime)
                   /\ UNCHANGED <<localStorage, sessionCheckInterval, timers,
                                  sinceTick, listening, location, hist>>
              ELSE Let(SessionExpiry(Page, quota, now, location, inactiveTime,
                                     FALSE), LAMBDA r :
                     /\ handler' = NoHandler
                     /\ SetPage(r.pg)
                     /\ location' = r.path
                     /\ hist' = [hist EXCEPT !.active = @ /\ ~r.out,
                                             !.until = IF r.out THEN 0
                                                       ELSE @])))
  /\ last' = [Quiet EXCEPT !.op = "read"]
  /\ TabsIdle

\* the user answers the warning: updateActivity() if the answer is OK, then
\* the record read before the dialog is stored with warningShown set, then
\* the test of the timeout with the inactiveTime computed before the dialog
TickConfirm(answer) ==
  /\ handler.pc = "confirm"
  /\ Let(SessionWarning(Page, quota, now, answer, location, handler.session,
                        handler.inactive, TRUE), LAMBDA r :
       /\ SetPage(r.pg)
       /\ location' = r.path
       /\ hist' = [hist EXCEPT !.active = @ /\ ~r.out,
                               !.until = IF r.out THEN 0 ELSE @])
  /\ handler' = NoHandler
  /\ last' = [Quiet EXCEPT !.op = "confirm", !.answer = answer]
  /\ TabsIdle

\* logout() runs in the other tab: the four keys are removed from the shared
\* storage (clearSession there clears that tab's own interval)
OtherLogout ==
  /\ localStorage' = Logout(LoadPage(localStorage, quota, now)).ls
  /\ hist' = [hist EXCEPT !.active = FALSE, !.until = 0]
  /\ last' = [Quiet EXCEPT !.op = "otherLogout", !.success = TRUE,
                !.prior = StateClass(localStorage, now)]
  /\ UNCHANGED <<sessionCheckInterval, timers, sinceTick, listening,
                 location, handler>>
  /\ TabsIdle

TabsEnd == 1 + TIMEOUT

NextTabs ==
  \/ Idle /\ Login("loginLocalStorage", ConfigAdmin.USERNAME,
                    ConfigAdmin.PASSWORD, FALSE, ApiAbsent)
  \/ Idle /\ LogoutOp
  \/ OtherLogout
  \/ ActivityBegin
  \/ ActivityRead
  \/ ActivityWrite
  \/ TickBegin
  \/ TickRead
  \/ \E answer \in BOOLEAN : TickConfirm(answer)
  \/ handler.pc \in {"idle", "confirm"} /\ Advance(WARNING_TIME, TabsEnd)

SpecTabs == InitPages /\ [][NextTabs]_vars

\* C18: from the completion of logout() in either tab until the next
\* successful login, the session record is absent from the storage.
C18_LogoutFinal ==
  ~hist.active => ADMIN_SESSION \notin DOMAIN localStorage

----------------------------------------------------------------------------
(* The remembered login: local logins with and without rememberMe, watched *)
(* until the thirty days of the token are over.                            *)

\* the clock is read in the first minute and RememberSpan timeouts after it,
\* and at the same times thirty days later
RememberSpan == 1
RememberEnd == 1 + ThirtyDays + RememberSpan * TIMEOUT

NextRemember ==
  \/ \E who \in {Admin, Staff}, rememberMe \in BOOLEAN :
       Login("loginLocalStorage", who[1], who[2], rememberMe, ApiAbsent)
  \/ LogoutOp
  \/ Activity
  \/ \E answer \in BOOLEAN : Tick(answer)
  \/ PageLoad("/admin/dashboard.html")
  \/ Advance(TIMEOUT, 1 + RememberSpan * TIMEOUT)
  \/ Advance(ThirtyDays, RememberEnd)

SpecRemember == InitPages /\ [][NextRemember]_vars

\* the token's payload and the remember-me record held by a storage
PayloadIn(ls) == DecodeToken(StorageGet(ls, AUTH_TOKEN, Null))
RememberIn(ls) == StorageGet(ls, REMEMBER_ME, Null)

\* C19: a successful loginLocalStorage with rememberMe stores a token whose
\* exp is thirty days after the login and the remember-me record { enabled:
\* true, expiry: the same time }; without rememberMe the token's exp is
\* TIMEOUT after the login and the remember-me key is left as it was. From a
\* login with rememberMe on, until thirty days after it, isAuthenticated()
\* is true as long as logout() has not run (called by the page or by the
\* session checker) and no other login has replaced the token.
C19_Remembered ==
  [][/\ (last'.op = "login" /\ last'.success) =>
          /\ Field(PayloadIn(localStorage'), "exp")
               = Num(now + (IF last'.remember THEN ThirtyDays ELSE TIMEOUT))
          /\ RememberIn(localStorage')
               = (IF last'.remember
                  THEN Obj(<<<<"enabled", Bool(TRUE)>>,
                             <<"expiry", Num(now + ThirtyDays)>>>>)
                  ELSE RememberIn(localStorage))
     /\ (hist'.active /\ now' <= hist'.until) =>
          Truthy(IsAuthenticated(localStorage', now'))
  ]_vars

\* thirty days after a login with rememberMe the user is still authenticated
C19_Witness ==
  /\ hist.active /\ hist.until = now /\ now > ThirtyDays
  /\ Authenticated
  /\ RememberIn(localStorage) # Null

----------------------------------------------------------------------------
(* The life of the stored token: logins that succeed and fail, activity,   *)
(* the session checker and the read operations, watched until the token of *)
(* a login without rememberMe has expired.                                 *)

\* requireAuth(redirectUrl): the result and where the window is afterwards
RequireAuth(ls, t, path, redirectUrl) ==
  IF Truthy(IsAuthenticated(ls, t))
  THEN [res |-> Bool(TRUE), path |-> path]
  ELSE [res |-> Bool(FALSE), path |-> redirectUrl]

\* requireAdmin(redirectUrl)
RequireAdmin(ls, t, path, redirectUrl) ==
  IF Truthy(IsAdmin(ls, t))
  THEN [res |-> Bool(TRUE), path |-> path]
  ELSE [res |-> Bool(FALSE), path |-> redirectUrl]

ReadOps == {"isAuthenticated", "getCurrentUser", "hasRole", "requireAuth"}

\* what a read operation returns
ReadResult(op, ls, t, path) ==
  CASE op = "isAuthenticated" -> IsAuthenticated(ls, t)
    [] op = "getCurrentUser" -> GetCurrentUser(ls, t)
    [] op = "hasRole" -> HasRole(ls, t, "admin")
    [] op = "requireAuth" -> RequireAuth(ls, t, path, "/admin/login.html").res
    [] op = "requireAdmin" -> RequireAdmin(ls, t, path, "/index.html").res

\* the page calls isAuthenticated(), getCurrentUser(), hasRole('admin'),
\* requireAuth() or requireAdmin(); they only read the storage
ReadOp(op) ==
  /\ location' = CASE op = "requireAuth" ->
                       RequireAuth(localStorage, now, location,
                                   "/admin/login.html").path
                   [] op = "requireAdmin" ->
                       RequireAdmin(localStorage, now, location,
                                    "/index.html").path
                   [] OTHER -> location
  /\ last' = [Quiet EXCEPT !.op = op,
                !.success = Truthy(ReadResult(op, localStorage, now,
                                              location))]
  /\ UNCHANGED <<localStorage, quota, now, sessionCheckInterval, timers,
                 sinceTick, listening, request, handler, heap, hist>>

\* the token of a login without rememberMe has expired WARNING_TIME before
\* the end of the observation
TokenSlack == 1
TokenEnd == 1 + TIMEOUT + TokenSlack * WARNING_TIME

NextToken ==
  \/ \E rememberMe \in BOOLEAN :
       Login("loginLocalStorage", Admin[1], Admin[2], rememberMe, ApiAbsent)
  \/ \E resp \in {ApiThrows, Denied} :
       Login("login", Wrong[1], Wrong[2], FALSE, resp)
  \/ LogoutOp
  \/ Activity
  \/ \E answer \in BOOLEAN : Tick(answer)
  \/ \E op \in ReadOps : ReadOp(op)
  \/ Advance(WARNING_TIME, TokenEnd)

SpecToken == InitPages /\ [][NextToken]_vars

\* the text stored under the token's key, if any
TokenIn(ls) == {ls[k] : k \in DOMAIN ls \cap {AUTH_TOKEN}}

\* C20: a step that stores a token, or another token than the one stored,
\* is a successful login; a step that removes the token is logout(), called
\* by the page or by the session checker on its timeout. Every other step -
\* an activity event with its updateActivity(), the checker's warning, a
\* failed login, isAuthenticated(), getCurrentUser(), hasRole(),
\* requireAuth(), the passing of time - leaves the stored token as it was.
C20_TokenFixed ==
  [][/\ (TokenIn(localStorage') # TokenIn(localStorage)
         /\ TokenIn(localStorage') # {}) =>
          (last'.op = "login" /\ last'.success)
     /\ (TokenIn(localStorage') # TokenIn(localStorage)
         /\ TokenIn(localStorage') = {}) =>
          (last'.op = "logout" \/ (last'.op = "tick" /\ last'.out))
  ]_vars

\* the user has confirmed the checker's warning, updateActivity() has run,
\* and the token still expires TIMEOUT after the login
C20_Witness ==
  /\ last.op = "tick" /\ last.warned /\ last.answer /\ ~last.out
  /\ last.inactive >= TIMEOUT - WARNING_TIME
  /\ TokenIn(localStorage) # {}
  /\ LessThan(Field(PayloadIn(localStorage), "exp"), now + TIMEOUT)

----------------------------------------------------------------------------
(* login() against a backend that is absent, fails, refuses, lets the user *)
(* in, or answers with a body that is no object.                           *)

\* a body without a success field, and the JSON text null
NoVerdict == ApiAnswer(Obj(<< <<"error", Str("Server error")>> >>))
NullBody == ApiAnswer(Null)

RemoteAnswers(t) ==
  {ApiAbsent, ApiThrows, Denied, NoVerdict, NullBody} \cup Grants(t)

NextRemote ==
  \/ \E who \in {Admin, Wrong}, rememberMe \in BOOLEAN,
        resp \in RemoteAnswers(now) :
       Login("login", who[1], who[2], rememberMe, resp)
  \/ LogoutOp

SpecRemote == InitPages /\ [][NextRemote]_vars

\* the step is a call of login() and body is what the backend answered
RemoteLogin(succeeded, storage, entry, apiKind, body, username, password,
            remember) ==
  LET local == LoginLocalStorage(Page, quota, now, username, password,
                                 remember)
  IN IF apiKind \in {"undefined", "throws"}
     THEN succeeded = local.success /\ storage = local.pg.ls
     ELSE IF Truthy(Field(body, "success"))
     THEN /\ succeeded
          /\ StorageGet(storage, USER_DATA, Null) = Field(body, "user")
          /\ StorageGet(storage, AUTH_TOKEN, Null) = Field(body, "token")
     ELSE ~succeeded /\ storage = localStorage

\* C21: a call of login() ends as loginLocalStorage would when the API is
\* undefined or API.auth.login throws; when the backend answers with a truthy
\* success the login succeeds and the stored user and token are the
\* backend's; with any other answer the login fails and the storage is as it
\* was before the call.
C21_RemoteFirst ==
  [][(last'.op = "login" /\ last'.entry = "login") =>
       RemoteLogin(last'.success, localStorage', last'.entry, last'.api,
                   last'.body, last'.username, last'.password,
                   last'.remember)]_vars

\* the same, for the answers that are JSON objects
C21_RemoteFirstObject ==
  [][(last'.op = "login" /\ last'.entry = "login"
      /\ ~ThrowsOnAccess(last'.body)) =>
       RemoteLogin(last'.success, localStorage', last'.entry, last'.api,
                   last'.body, last'.username, last'.password,
                   last'.remember)]_vars

----------------------------------------------------------------------------
(* The session checker's interval (SpecSession)                            *)

\* C22: on a page at most one interval of the session checker is scheduled,
\* and it is the one window.sessionCheckInterval names; none is scheduled
\* after logout(), after a run of the checker that logged the user out, or
\* after a run that found isAuthenticated() false.
C22_OneChecker ==
  /\ Cardinality(timers) <= 1
  /\ timers \subseteq {sessionCheckInterval}
  /\ last.op = "logout" => timers = {}
  /\ (last.op = "tick" /\ last.out) => timers = {}
  /\ (last.op = "tick" /\ last.prior \in {"LoggedOut", "Expired"}) =>
       timers = {}

\* the checker has found the token expired and cleared its own interval; the
\* handle still names it
C22_Witness ==
  /\ last.op = "tick" /\ last.prior = "Expired"
  /\ timers = {} /\ sessionCheckInterval # 0

\* a second login has replaced the interval of the first
C22_WitnessAgain ==
  /\ last.op = "login" /\ last.success /\ last.prior \in {"Active", "Warned"}
  /\ timers = {sessionCheckInterval}

----------------------------------------------------------------------------
(* The cache of PerformanceOptimizer (js/performance.js): two Maps, the    *)
(* values and their expiry times, in minutes.                              *)

\* this.defaultCacheDuration = 5 * 60 * 1000
DefaultCacheDuration == 5

\* a Map: the function from its keys to their values
EmptyMap == [k \in {} |-> Null]
MapGet(map, key) == IF key \in DOMAIN map THEN map[key] ELSE Undefined
MapSet(map, key, value) ==
  [k \in DOMAIN map \cup {key} |-> IF k = key THEN value ELSE map[k]]
MapDelete(map, key) == [k \in DOMAIN map \ {key} |-> map[k]]

\* setupCaching()
SetupCaching == [loaded |-> "performance", cache |-> EmptyMap,
                 cacheExpiry |-> EmptyMap]

\* a getFromCache(key) that takes the entry for expired at its expiry time
GetFromCacheEarly(h, key, t) ==
  Let(MapGet(h.cacheExpiry, key), LAMBDA expiry :
    IF Truthy(expiry) /\ ~LessThan(Num(t), expiry.number)
    THEN [heap |-> [h EXCEPT !.cache = MapDelete(@, key),
                             !.cacheExpiry = MapDelete(@, key)],
          res |-> Null]
    ELSE [heap |-> h, res |-> MapGet(h.cache, key)])

\* getFromCache(key) at time t: the maps it leaves and what it returns
GetFromCache(h, key, t) ==
  Let(MapGet(h.cacheExpiry, key), LAMBDA expiry :
    IF Truthy(expiry) /\ LessThan(expiry, t)
    THEN [heap |-> [h EXCEPT !.cache = MapDelete(@, key),
                             !.cacheExpiry = MapDelete(@, key)],
          res |-> Null]
    ELSE [heap |-> h, res |-> MapGet(h.cache, key)])

\* setInCache(key, value, duration) at time t; the default of duration is
\* taken when it is undefined
SetInCache(h, key, value, duration, t) ==
  [h EXCEPT !.cache = MapSet(@, key, value),
            !.cacheExpiry =
              MapSet(@, key,
                     Num(t + (IF duration = Undefined
                              THEN DefaultCacheDuration
                              ELSE duration.number)))]

\* clearCache()
ClearCache(h) == [h EXCEPT !.cache = EmptyMap, !.cacheExpiry = EmptyMap]

CacheKeys == {"quotes", "projects"}
CacheValues == {Str("a"), Bool(FALSE)}
\* durations passed to setInCache: none, and 0 to MaxDuration minutes
MaxDuration == 2
Durations == {Undefined} \cup {Num(d) : d \in 0..MaxDuration}
\* the clock runs until CacheSlack minutes after a default duration
CacheSlack == 1
CacheEnd == 1 + DefaultCacheDuration + CacheSlack

\* hist.set: per key, the value and expiry time of the setInCache that no
\* clearCache and no read after the expiry has followed
InitCache ==
  /\ localStorage = NoStorage
  /\ quota = AmpleQuota
  /\ now = 1
  /\ sessionCheckInterval = 0
  /\ timers = {}
  /\ sinceTick = 0
  /\ listening = FALSE
  /\ location = "/index.html"
  /\ request = NoRequest
  /\ handler = NoHandler
  /\ heap = SetupCaching
  /\ hist = [set |-> EmptyMap]
  /\ last = [op |-> "init"]

CacheIdle ==
  UNCHANGED <<localStorage, quota, now, sessionCheckInterval, timers,
              sinceTick, listening, location, request, handler>>

SetInCacheOp(key, value, duration) ==
  /\ heap' = SetInCache(heap, key, value, duration, now)
  /\ hist' = [set |-> MapSet(hist.set, key,
                 [value |-> value,
                  until |-> now + (IF duration = Undefined
                                   THEN DefaultCacheDuration
                                   ELSE duration.number)])]
  /\ last' = [op |-> "setInCache", key |-> key]
  /\ CacheIdle

GetFromCacheOp(key) ==
  /\ Let(GetFromCache(heap, key, now), LAMBDA r :
       /\ heap' = r.heap
       /\ last' = [op |-> "getFromCache", key |-> key, res |-> r.res])
  /\ hist' = [set |-> IF key \in DOMAIN hist.set /\ now > hist.set[key].until
                      THEN MapDelete(hist.set, key) ELSE hist.set]
  /\ CacheIdle

ClearCacheOp ==
  /\ heap' = ClearCache(heap)
  /\ hist' = [set |-> EmptyMap]
  /\ last' = [op |-> "clearCache"]
  /\ CacheIdle

NextCache ==
  \/ \E key \in CacheKeys, value \in CacheValues, duration \in Durations :
       SetInCacheOp(key, value, duration)
  \/ \E key \in CacheKeys : GetFromCacheOp(key)
  \/ ClearCacheOp
  \/ Advance(1, CacheEnd)

SpecCache == InitCache /\ [][NextCache]_vars

\* C23: a getFromCache(k) that follows setInCache(k, v, d) made at time t
\* returns v and changes nothing when the time is at most t + d; the first
\* one after t + d returns null and removes k from both maps. A key leaves
\* a map only in such a read of it or in clearCache, any other key keeps
\* its value, and the two maps always hold the same keys.
C23_LazyExpiry ==
  [][/\ DOMAIN heap'.cache = DOMAIN heap'.cacheExpiry
     /\ (last'.op = "getFromCache" /\ last'.key \in DOMAIN hist.set) =>
          IF now <= hist.set[last'.key].until
          THEN last'.res = hist.set[last'.key].value /\ heap' = heap
          ELSE /\ last'.res = Null
               /\ last'.key \notin DOMAIN heap'.cache
               /\ last'.key \notin DOMAIN heap'.cacheExpiry
     /\ \A k \in DOMAIN heap.cache :
          \/ k \in DOMAIN heap'.cache
               /\ (heap'.cache[k] = heap.cache[k]
                   \/ (last'.op = "setInCache" /\ last'.key = k))
          \/ last'.op = "clearCache"
          \/ /\ last'.op = "getFromCache" /\ last'.key = k
             /\ k \in DOMAIN hist.set /\ now > hist.set[k].until
  ]_vars

\* an entry was read at the very minute it expires, another is still cached
C23_Witness ==
  /\ last.op = "getFromCache" /\ last.res = Bool(FALSE)
  /\ last.key \in DOMAIN hist.set /\ hist.set[last.key].until = now
  /\ now > 1
  /\ DOMAIN heap.cache = CacheKeys

\* an expired entry was read and is gone
C23_WitnessExpired ==
  /\ last.op = "getFromCache" /\ last.res = Null
  /\ last.key \notin DOMAIN heap.cache
  /\ DOMAIN heap.cache # {}

----------------------------------------------------------------------------
(* The local logs: ErrorHandler (js/integration.js) keeps the errors in    *)
(* memory and under 'errorLog'; PerformanceOptimizer keeps the metrics     *)
(* under 'performanceMetrics'.                                             *)

\* this.maxErrors = 50; storedErrors.length > 20; storedMetrics.length > 50
MaxErrors == 50
MaxStoredErrors == 20
MaxStoredMetrics == 50

ERROR_LOG == "errorLog"
PERFORMANCE_METRICS == "performanceMetrics"

\* localStorage.setItem where the caller catches the QuotaExceededError
TrySetItem(ls, q, key, text) ==
  IF Fits(ls, q, key, text) THEN setItem(ls, key, text) ELSE ls

\* a push followed by shift() only when the array had grown past max + 1
PushCappedLate(array, entry, max) ==
  IF Len(array) + 1 > max + 1 THEN Tail(Append(array, entry))
  ELSE Append(array, entry)

\* array.push(entry) followed by if (array.length > max) array.shift()
PushCapped(array, entry, max) ==
  IF Len(array) + 1 > max THEN Tail(Append(array, entry))
  ELSE Append(array, entry)

\* JSON.parse(localStorage.getItem(key) || '[]'), entry pushed, the array
\* capped and stored again; whatever is thrown on the way is caught
StoreCapped(ls, q, key, entry, max) ==
  Let(IF key \in DOMAIN ls /\ ls[key] # <<>>
      THEN JSONParse(ls[key]) ELSE [ok |-> TRUE, val |-> Arr(<<>>)],
      LAMBDA p :
    IF ~p.ok \/ T(p.val) # "array" THEN ls
    ELSE Let(JSONStringify(Arr(PushCapped(p.val.array, entry, max))),
             LAMBDA text :
           IF text.ok THEN TrySetItem(ls, q, key, text.text) ELSE ls))

\* the entry logError(error, context) makes at time t on the page at url;
\* error is a string here, so error.message and error.stack are undefined
ErrorEntry(error, context, t, url) ==
  Obj(<< <<"message", IF Truthy(Field(error, "message"))
                      THEN Field(error, "message") ELSE error>>,
         <<"stack", Field(error, "stack")>>,
         <<"context", context>>,
         <<"timestamp", IsoDate(t)>>,
         <<"url", Str(url)>>,
         <<"userAgent", Str("Mozilla/5.0")>> >>)

\* sendToErrorTracking(errorEntry)
SendToErrorTracking(ls, q, errorEntry) ==
  StoreCapped(ls, q, ERROR_LOG, errorEntry, MaxStoredErrors)

\* logError(error, context): the errors kept in memory and the storage
LogError(h, ls, q, error, context, t, url) ==
  Let(ErrorEntry(error, context, t, url), LAMBDA errorEntry :
    [heap |-> [h EXCEPT !.errors = PushCapped(@, errorEntry, MaxErrors)],
     ls |-> SendToErrorTracking(ls, q, errorEntry)])

\* clearErrors()
ClearErrors(h, ls) ==
  [heap |-> [h EXCEPT !.errors = <<>>], ls |-> removeItem(ls, ERROR_LOG)]

\* storePerformanceMetrics(metrics)
StorePerformanceMetrics(ls, q, metrics) ==
  StoreCapped(ls, q, PERFORMANCE_METRICS, metrics, MaxStoredMetrics)

\* the calls of logError since the last clearErrors and the calls of
\* storePerformanceMetrics are followed up to MaxLogged each
MaxLogged == 52
\* room for both logs at their caps
LogQuota == 100000

\* hist.logged: the entries logError made since the last clearErrors;
\* hist.measured: the metrics stored, both in the order of the calls
InitLogs ==
  /\ localStorage = NoStorage
  /\ quota = LogQuota
  /\ now = 1
  /\ sessionCheckInterval = 0
  /\ timers = {}
  /\ sinceTick = 0
  /\ listening = FALSE
  /\ location = "/index.html"
  /\ request = NoRequest
  /\ handler = NoHandler
  /\ heap = [loaded |-> "integration", errors |-> <<>>]
  /\ hist = [logged |-> <<>>, measured |-> <<>>]
  /\ last = [op |-> "init"]

LogsIdle ==
  UNCHANGED <<quota, now, sessionCheckInterval, timers, sinceTick, listening,
              location, request, handler>>

\* logError('Network error', { attempt: n }), n counting the calls
LogErrorOp ==
  /\ Len(hist.logged) < MaxLogged
  /\ Let(Obj(<< <<"attempt", Num(Len(hist.logged) + 1)>> >>),
         LAMBDA context :
       /\ Let(LogError(heap, localStorage, quota, Str("Network error"),
                       context, now, location), LAMBDA r :
            heap' = r.heap /\ localStorage' = r.ls)
       /\ hist' = [hist EXCEPT !.logged =
                     Append(@, ErrorEntry(Str("Network error"), context, now,
                                          location))])
  /\ last' = [op |-> "logError"]
  /\ LogsIdle

ClearErrorsOp ==
  /\ Let(ClearErrors(heap, localStorage), LAMBDA r :
       heap' = r.heap /\ localStorage' = r.ls)
  /\ hist' = [hist EXCEPT !.logged = <<>>]
  /\ last' = [op |-> "clearErrors"]
  /\ LogsIdle

\* storePerformanceMetrics({ pageLoadTime: n }), n counting the calls
StoreMetricsOp ==
  /\ Len(hist.measured) < MaxLogged
  /\ Let(Obj(<< <<"pageLoadTime", Num(Len(hist.measured) + 1)>> >>),
         LAMBDA metrics :
       /\ localStorage' = StorePerformanceMetrics(localStorage, quota,
                                                  metrics)
       /\ hist' = [hist EXCEPT !.measured = Append(@, metrics)])
  /\ last' = [op |-> "storePerformanceMetrics"]
  /\ UNCHANGED heap
  /\ LogsIdle

NextLogs == LogErrorOp \/ ClearErrorsOp \/ StoreMetricsOp

SpecLogs == InitLogs /\ [][NextLogs]_vars

\* the last n elements of a sequence, all of it when it is shorter
LastN(seq, n) ==
  IF Len(seq) <= n THEN seq ELSE SubSeq(seq, Len(seq) - n + 1, Len(seq))

\* the array stored under a key, empty when the key is absent
StoredArray(key) ==
  IF key \in DOMAIN localStorage THEN JSONParse(localStorage[key]).val.array
  ELSE <<>>

\* an entry as JSON keeps it: without the fields that are undefined
AsStored(entry) == JSONParse(JSONStringify(entry).text).val

\* C24: ErrorHandler.errors holds the last 50 entries logged since the last
\* clearErrors, the stored 'errorLog' the last 20 of them and the stored
\* 'performanceMetrics' the last 50 metrics, each in the order of arrival;
\* after clearErrors errors is empty and 'errorLog' is absent.
C24_LogsCapped ==
  /\ Len(heap.errors) <= MaxErrors
  /\ heap.errors = LastN(hist.logged, MaxErrors)
  /\ Len(StoredArray(ERROR_LOG)) <= MaxStoredErrors
  /\ StoredArray(ERROR_LOG)
       = [i \in 1..Len(LastN(hist.logged, MaxStoredErrors)) |->
            AsStored(LastN(hist.logged, MaxStoredErrors)[i])]
  /\ Len(StoredArray(PERFORMANCE_METRICS)) <= MaxStoredMetrics
  /\ StoredArray(PERFORMANCE_METRICS)
       = LastN(hist.measured, MaxStoredMetrics)
  /\ last.op = "clearErrors" =>
       heap.errors = <<>> /\ ERROR_LOG \notin DOMAIN localStorage

\* all three logs are at their caps and each has dropped its oldest entry
C24_Witness ==
  /\ Len(hist.logged) > MaxErrors /\ Len(hist.measured) > MaxStoredMetrics
  /\ Len(heap.errors) = MaxErrors
  /\ Len(StoredArray(ERROR_LOG)) = MaxStoredErrors
  /\ Len(StoredArray(PERFORMANCE_METRICS)) = MaxStoredMetrics

----------------------------------------------------------------------------
(* StorageUtil.setWithTimestamp and getWithTimestamp                       *)

\* setWithTimestamp(key, value) at time t
StorageSetWithTimestamp(ls, q, t, key, value) ==
  StorageSet(ls, q, t, key, Stamped(value, t))

\* getWithTimestamp(key, maxAge) at time t; maxAge is null when it is left
\* out. The storage it leaves and what it returns.
StorageGetWithTimestamp(ls, key, maxAge, t) ==
  Let(StorageGet(ls, key, Null), LAMBDA item :
    IF ~Truthy(item) \/ ~Truthy(Field(item, "timestamp"))
    THEN [ls |-> ls, res |-> Null]
    ELSE IF Truthy(maxAge)
            /\ LessThan(maxAge, t - Field(item, "timestamp").number)
    THEN [ls |-> StorageRemove(ls, key), res |-> Null]
    ELSE [ls |-> ls, res |-> Field(item, "data")])

StampKeys == {"draft", "quote"}
StampValues == {Str("a"), Str(""), Num(0), Bool(FALSE), Null}
\* maxAge: left out, or 0 to MaxAge minutes
MaxAge == 2
MaxAges == {Null} \cup {Num(a) : a \in 0..MaxAge}
\* the clock runs until StampSlack minutes after the largest maxAge
StampSlack == 1
StampEnd == 1 + MaxAge + StampSlack

\* hist.stamped: per key, the value and time of the setWithTimestamp whose
\* record is in the storage
InitStamp ==
  /\ localStorage = NoStorage
  /\ quota = AmpleQuota
  /\ now = 1
  /\ sessionCheckInterval = 0
  /\ timers = {}
  /\ sinceTick = 0
  /\ listening = FALSE
  /\ location = "/index.html"
  /\ request = NoRequest
  /\ handler = NoHandler
  /\ heap = NoHeap
  /\ hist = [stamped |-> EmptyMap]
  /\ last = [op |-> "init"]

StampIdle ==
  UNCHANGED <<quota, now, sessionCheckInterval, timers, sinceTick, listening,
              location, request, handler, heap>>

SetWithTimestampOp(key, value) ==
  /\ Let(StorageSetWithTimestamp(localStorage, quota, now, key, value),
         LAMBDA r :
       /\ localStorage' = r.ls
       /\ hist' = [stamped |-> IF r.ok
                               THEN MapSet(hist.stamped, key,
                                           [value |-> value, at |-> now])
                               ELSE hist.stamped]
       /\ last' = [op |-> "setWithTimestamp", key |-> key, res |-> r.ok])
  /\ StampIdle

GetWithTimestampOp(key, maxAge) ==
  /\ Let(StorageGetWithTimestamp(localStorage, key, maxAge, now), LAMBDA r :
       /\ localStorage' = r.ls
       /\ hist' = [stamped |-> IF key \in DOMAIN r.ls THEN hist.stamped
                               ELSE MapDelete(hist.stamped, key)]
       /\ last' = [op |-> "getWithTimestamp", key |-> key,
                   maxAge |-> maxAge, res |-> r.res])
  /\ StampIdle

NextStamp ==
  \/ \E key \in StampKeys, value \in StampValues :
       SetWithTimestampOp(key, value)
  \/ \E key \in StampKeys, maxAge \in MaxAges :
       GetWithTimestampOp(key, maxAge)
  \/ Advance(1, StampEnd)

SpecStamp == InitStamp /\ [][NextStamp]_vars

\* what a getWithTimestamp(key, maxAge) did when the record of key was
\* written by setWithTimestamp(key, value) at time at
FreshOrGone(maxAge, value, at, res, before, after, key) ==
  IF maxAge = Null \/ now - at <= maxAge.number
  THEN res = value /\ after = before
  ELSE res = Null /\ key \notin DOMAIN after

\* C25: getWithTimestamp(k, maxAge) after setWithTimestamp(k, v) made at
\* time t returns v and leaves the storage as it is when maxAge is left out
\* or the time is at most t + maxAge; when the time is later it returns null
\* and k is removed. This for every maxAge from 0 on and every v.
C25_Stamped ==
  [][(last'.op = "getWithTimestamp" /\ last'.key \in DOMAIN hist.stamped) =>
       FreshOrGone(last'.maxAge, hist.stamped[last'.key].value,
                   hist.stamped[last'.key].at, last'.res, localStorage,
                   localStorage', last'.key)]_vars

\* the same for the calls whose maxAge is left out or positive
C25_StampedPositive ==
  [][(last'.op = "getWithTimestamp" /\ last'.key \in DOMAIN hist.stamped
      /\ last'.maxAge # Num(0)) =>
       FreshOrGone(last'.maxAge, hist.stamped[last'.key].value,
                   hist.stamped[last'.key].at, last'.res, localStorage,
                   localStorage', last'.key)]_vars

----------------------------------------------------------------------------
(* Failed local logins (SpecFull)                                          *)

\* credentials that are neither the admin pair nor those of an active user
\* of the stored list
Rejected == {Wrong, Inactive, Documented}

\* C26: loginLocalStorage and authenticateAdmin return success = false for
\* credentials that match neither the admin pair nor an active user of the
\* stored list, the right password of an inactive user included; a local
\* login that fails leaves every storage key as it was, schedules no
\* interval and registers no listener, whether or not a session is in place.
C26_FailedLoginFrame ==
  [][(last'.op = "login"
      /\ last'.entry \in {"loginLocalStorage", "authenticateAdmin"}) =>
       /\ <<last'.username, last'.password>> \in Rejected => ~last'.success
       /\ ~last'.success =>
            /\ localStorage' = localStorage
            /\ timers' = timers
            /\ sessionCheckInterval' = sessionCheckInterval
            /\ listening' = listening
  ]_vars

\* the right password of the inactive user was refused while the admin's
\* session was in place, and the session is still there
C26_Witness ==
  /\ last.op = "login" /\ ~last.success
  /\ last.username = Inactive[1] /\ last.password = Inactive[2]
  /\ last.prior = "Active"
  /\ Authenticated /\ timers # {}

----------------------------------------------------------------------------
(* The authorization checks: admin and staff log in and out, the page      *)
(* asks who is there, and the tokens expire.                               *)

NextGuard ==
  \/ \E who \in {Admin, Staff, Wrong} :
       Login("loginLocalStorage", who[1], who[2], FALSE, ApiAbsent)
  \/ LogoutOp
  \/ \E op \in ReadOps \cup {"requireAdmin"} : ReadOp(op)
  \/ PageLoad("/admin/dashboard.html")
  \/ Advance(TIMEOUT + WARNING_TIME, LoginEnd)

SpecGuard == InitPages /\ [][NextGuard]_vars

Roles == {"admin", "staff", "client"}

\* C27: when isAuthenticated() is falsy getCurrentUser() is null and
\* hasRole(r) and isAdmin() are falsy; requireAuth() returns true exactly
\* when isAuthenticated() is truthy and requireAdmin() exactly when isAdmin()
\* is, and when they return false the window is at the redirect URL.
C27_GuardsNeedToken ==
  /\ ~Authenticated =>
       /\ GetCurrentUser(localStorage, now) = Null
       /\ \A r \in Roles : ~Truthy(HasRole(localStorage, now, r))
       /\ ~Truthy(IsAdmin(localStorage, now))
  /\ last.op = "requireAuth" =>
       /\ last.success <=> Authenticated
       /\ ~last.success => location = "/admin/login.html"
  /\ last.op = "requireAdmin" =>
       /\ last.success <=> Truthy(IsAdmin(localStorage, now))
       /\ last.success => Authenticated
       /\ ~last.success => location = "/index.html"

\* requireAdmin() has sent the page away: the admin's user data is still
\* stored but the token has expired
C27_Witness ==
  /\ last.op = "requireAdmin" /\ ~last.success
  /\ location = "/index.html"
  /\ StateClass(localStorage, now) = "Expired"
  /\ Field(StoredUser, "role") = Str("admin")

----------------------------------------------------------------------------
(* Activity events in sessions that began on a storage with or without     *)
(* room for the session record.                                            *)

NextActivity ==
  \/ Login("loginLocalStorage", Admin[1], Admin[2], FALSE, ApiAbsent)
  \/ LogoutOp
  \/ Activity
  \/ \E answer \in BOOLEAN : Tick(answer)
  \/ Advance(WARNING_TIME, SessionEnd)

SpecActivity == InitFull /\ [][NextActivity]_vars

\* the storage ls with the session record's lastActivity set to t and its
\* warningShown to false
Refreshed(ls, t) ==
  setItem(ls, ADMIN_SESSION,
    JSONStringify(
      SetField(SetField(StorageGet(ls, ADMIN_SESSION, Null),
                        "lastActivity", Num(t)),
               "warningShown", Bool(FALSE))).text)

\* C28: an activity event leaves the storage as it is when isAuthenticated()
\* is false or no session record is stored; otherwise the storage after it
\* differs from the one before only in the session record's lastActivity,
\* which is the current time, and warningShown, which is false.
C28_ActivityFrame ==
  [][last'.op = "activity" =>
       IF ~Truthy(IsAuthenticated(localStorage, now))
          \/ ~Truthy(StorageGet(localStorage, ADMIN_SESSION, Null))
       THEN localStorage' = localStorage
       ELSE localStorage' = Refreshed(localStorage, now)]_vars

\* an event has reset a session that had been warned
C28_Witness ==
  /\ last.op = "activity" /\ last.success /\ last.prior = "Warned"
  /\ Field(StoredSession, "warningShown") = Bool(FALSE)
  /\ Field(StoredSession, "lastActivity") = Num(now)
  /\ LessThan(Field(StoredSession, "startTime"), now)

\* an event came while the token was valid and no session record was
\* stored, and none is stored after it
C28_WitnessNoRecord ==
  /\ last.op = "activity" /\ last.success
  /\ ADMIN_SESSION \notin DOMAIN localStorage

----------------------------------------------------------------------------
(* debounce(func, wait) of PerformanceOptimizer and Integration: the       *)
(* closure's variable timeout and the timeouts the browser has scheduled,  *)
(* each with the time it was set at and the arguments its callback holds.  *)

\* the wait given to debounce, in the clock's units
Wait == 2

\* the state of the closure debounce(func, wait) returns
NewDebounce == [loaded |-> "debounce", timeout |-> 0, timeouts |-> EmptyMap]

\* clearTimeout(id); an id that is undefined or no longer scheduled is
\* ignored
ClearTimeout(timeouts, id) == MapDelete(timeouts, id)

\* a call of the returned function that leaves the pending timeout alone
ExecutedFunctionKeep(h, args, t) ==
  Let(NewTimerId(DOMAIN h.timeouts \cup {h.timeout}), LAMBDA id :
    [h EXCEPT !.timeouts = MapSet(h.timeouts, id, [at |-> t, args |-> args]),
              !.timeout = id])

\* executedFunction(...args) at time t: clearTimeout(timeout), then
\* timeout = setTimeout(later, wait)
ExecutedFunction(h, args, t) ==
  Let(ClearTimeout(h.timeouts, h.timeout), LAMBDA cleared :
    Let(NewTimerId(DOMAIN cleared \cup {h.timeout}), LAMBDA id :
      [h EXCEPT !.timeouts = MapSet(cleared, id, [at |-> t, args |-> args]),
                !.timeout = id]))

\* later(), run by the timeout id, which is then no longer scheduled:
\* clearTimeout(timeout) and func(...args)
Later(h, id) ==
  [heap |-> [h EXCEPT !.timeouts =
                        ClearTimeout(MapDelete(h.timeouts, id), h.timeout)],
   args |-> h.timeouts[id].args]

DebounceArgs == {"a", "b"}
\* calls of the returned function that are followed
MaxCalls == 3
\* the clock runs until DebounceSlack after two waits
DebounceSlack == 1
DebounceEnd == 1 + 2 * Wait + DebounceSlack

\* hist.calls: the calls of the returned function, hist.runs: the runs of
\* func, each with its time and arguments; hist.served: func has run since
\* the last call
InitDebounce ==
  /\ localStorage = NoStorage
  /\ quota = AmpleQuota
  /\ now = 1
  /\ sessionCheckInterval = 0
  /\ timers = {}
  /\ sinceTick = 0
  /\ listening = FALSE
  /\ location = "/index.html"
  /\ request = NoRequest
  /\ handler = NoHandler
  /\ heap = NewDebounce
  /\ hist = [calls |-> <<>>, runs |-> <<>>, served |-> FALSE]
  /\ last = [op |-> "init"]

DebounceIdle ==
  UNCHANGED <<localStorage, quota, now, sessionCheckInterval, timers,
              sinceTick, listening, location, request, handler>>

\* the returned function is called; calls are followed while the clock can
\* still reach the time their timeout is due
Call(args) ==
  /\ Len(hist.calls) < MaxCalls
  /\ now + Wait <= DebounceEnd
  /\ heap' = ExecutedFunction(heap, args, now)
  /\ hist' = [hist EXCEPT !.calls = Append(@, [at |-> now, args |-> args]),
                          !.served = FALSE]
  /\ last' = [op |-> "call", args |-> args]
  /\ DebounceIdle

\* a timeout that is due fires
TimeoutFires(id) ==
  /\ id \in DOMAIN heap.timeouts
  /\ now - heap.timeouts[id].at >= Wait
  /\ Let(Later(heap, id), LAMBDA r :
       /\ heap' = r.heap
       /\ hist' = [hist EXCEPT !.runs = Append(@, [at |-> now,
                                                   args |-> r.args]),
                               !.served = TRUE]
       /\ last' = [op |-> "run", args |-> r.args, again |-> hist.served])
  /\ DebounceIdle

NextDebounce ==
  \/ \E args \in DebounceArgs : Call(args)
  \/ \E id \in 1..(MaxCalls + 1) : TimeoutFires(id)
  \/ Advance(1, DebounceEnd)

SpecDebounce ==
  /\ InitDebounce /\ [][NextDebounce]_vars
  /\ WF_vars(\E id \in 1..(MaxCalls + 1) : TimeoutFires(id))
  /\ WF_vars(Advance(1, DebounceEnd))

\* the most recent call of the returned function
LastCall == hist.calls[Len(hist.calls)]

\* C29: func runs only when wait has passed since the most recent call of
\* the returned function, with that call's arguments, and not a second time
\* before the next call; after a call one timeout is pending, the one of
\* that call; and a call is followed by a run of func or by another call.
C29_Debounced ==
  /\ [][/\ last'.op = "run" =>
             (/\ hist.calls # <<>>
              /\ now - LastCall.at >= Wait
              /\ last'.args = LastCall.args
              /\ ~last'.again)
        /\ last'.op = "call" =>
             (/\ DOMAIN heap'.timeouts = {heap'.timeout}
              /\ heap'.timeouts[heap'.timeout] = [at |-> now,
                                                  args |-> last'.args])
       ]_vars
  /\ \A n \in 1..MaxCalls :
       (Len(hist.calls) = n /\ ~hist.served)
         ~> (hist.served \/ Len(hist.calls) > n)

\* a burst of two calls has ended in one run of func, with the arguments
\* of the second
C29_Witness ==
  /\ last.op = "run" /\ Len(hist.calls) = 2 /\ Len(hist.runs) = 1
  /\ hist.calls[1].args # hist.calls[2].args
  /\ hist.calls[2].at - hist.calls[1].at < Wait
  /\ hist.runs[1].args = hist.calls[2].args

----------------------------------------------------------------------------
(* The service selector (unnamed/part_001): the option elements of the     *)
(* page, of which heap.selected carries the class 'selected', and the      *)
(* choice kept under 'selectedService'.                                    *)

SELECTED_SERVICE == "selectedService"

Services == {"residential", "commercial", "industrial", "renovation",
             "infrastructure", "roads", "design", "consulting"}

\* no option carries the class 'selected'
NoOption == ""

\* localStorage.setItem(...args): a call with fewer than two arguments
\* throws a TypeError before anything is stored; setItem returns undefined
SetItemCall(ls, args) ==
  IF Len(args) < 2
  THEN [threw |-> TRUE, ls |-> ls, res |-> Undefined]
  ELSE [threw |-> FALSE, ls |-> setItem(ls, args[1], <<Word(args[2])>>),
        res |-> Undefined]

\* selectService(service): clicked is the option window.event names, or
\* NoOption when the function is called outside an event handler
SelectService(h, ls, service, clicked) ==
  IF clicked = NoOption
  THEN [heap |-> [h EXCEPT !.selected = NoOption], ls |-> ls, threw |-> TRUE]
  ELSE [heap |-> [h EXCEPT !.selected = clicked],
        ls |-> SetItemCall(ls, <<SELECTED_SERVICE, service>>).ls,
        threw |-> FALSE]

\* proceedWithSelection() on the page at path: what it leaves and does
ProceedWithSelection(ls, path) ==
  Let(SetItemCall(ls, <<SELECTED_SERVICE>>), LAMBDA call :
    IF call.threw
    THEN [ls |-> call.ls, path |-> path, alerted |-> FALSE, threw |-> TRUE]
    ELSE IF Truthy(call.res)
    THEN [ls |-> call.ls, path |-> "cost-calculator.html?service=",
          alerted |-> FALSE, threw |-> FALSE]
    ELSE [ls |-> call.ls, path |-> path, alerted |-> TRUE, threw |-> FALSE])

InitSelector ==
  /\ localStorage = NoStorage
  /\ quota = AmpleQuota
  /\ now = 1
  /\ sessionCheckInterval = 0
  /\ timers = {}
  /\ sinceTick = 0
  /\ listening = FALSE
  /\ location = "/index.html"
  /\ request = NoRequest
  /\ handler = NoHandler
  /\ heap = [loaded |-> "selector", selected |-> NoOption]
  /\ hist = [none |-> TRUE]
  /\ last = [op |-> "init"]

SelectorIdle ==
  UNCHANGED <<quota, now, sessionCheckInterval, timers, sinceTick, listening,
              request, handler, hist>>

\* an option is clicked (its onclick calls selectService with its service),
\* or selectService is called by a script
SelectServiceOp(service, clicked) ==
  /\ Let(SelectService(heap, localStorage, service, clicked), LAMBDA r :
       /\ heap' = r.heap
       /\ localStorage' = r.ls
       /\ last' = [op |-> "selectService", service |-> service,
                   threw |-> r.threw])
  /\ UNCHANGED location
  /\ SelectorIdle

ProceedOp ==
  /\ Let(ProceedWithSelection(localStorage, location), LAMBDA r :
       /\ localStorage' = r.ls
       /\ location' = r.path
       /\ last' = [op |-> "proceedWithSelection", alerted |-> r.alerted,
                   threw |-> r.threw])
  /\ UNCHANGED heap
  /\ SelectorIdle

\* the page is loaded again: the options are as the markup has them
ReloadOp ==
  /\ heap' = [heap EXCEPT !.selected = NoOption]
  /\ location' = "/index.html"
  /\ last' = [op |-> "load"]
  /\ UNCHANGED localStorage
  /\ SelectorIdle

NextSelector ==
  \/ \E service \in Services : \E clicked \in {service, NoOption} :
       SelectServiceOp(service, clicked)
  \/ ProceedOp
  \/ ReloadOp

SpecSelector == InitSelector /\ [][NextSelector]_vars

\* the service stored by selectService, if any
StoredService(ls) ==
  IF SELECTED_SERVICE \in DOMAIN ls THEN ls[SELECTED_SERVICE][1].word
  ELSE NoOption

\* C30: proceedWithSelection() leaves the stored selection as it is; when a
\* service s is stored it sends the window to the cost calculator with
\* service = s and shows no alert, and when none is stored it shows the
\* alert and the window stays where it is.
C30_Proceeds ==
  [][last'.op = "proceedWithSelection" =>
       /\ localStorage' = localStorage
       /\ IF StoredService(localStorage) # NoOption
          THEN /\ location' = "cost-calculator.html?service="
                                \o StoredService(localStorage)
               /\ ~last'.alerted
          ELSE last'.alerted /\ location' = location]_vars

\* proceedWithSelection() never changes the stored selection
C30_SelectionKept ==
  [][last'.op = "proceedWithSelection" =>
       localStorage' = localStorage]_vars

====
